---------------------------- MODULE Spec2Model ----------------------------
(***************************************************************************)
(* A model of the netsrv edge gateway's messaging bridge:                  *)
(*   - MQTTClient (app/core/mqtt_client.py): the connection flag, the      *)
(*     connect / disconnect callbacks, publish, the forced disconnect on   *)
(*     connection errors and the reconnect worker threads;                 *)
(*   - DataForwarder (app/services/data_forwarder.py): the rate-limited    *)
(*     send path with its message queue;                                   *)
(*   - PointReader / PointWriter / DataCaller (app/services): the request  *)
(*     handlers and the replies they publish.                              *)
(*                                                                         *)
(* The paho client library and the broker are the environment: `link` is   *)
(* the library's session, `wire` the log of the messages DataForwarder     *)
(* handed to client.publish.  `ev` records what the most recent handler    *)
(* did (its arguments, the facts of the pre-state its branch depended on   *)
(* and its outcome); the properties are stated over it.                    *)
(***************************************************************************)
EXTENDS Integers, Sequences, FiniteSets, TLC

VARIABLES
    is_connected,                \* MQTTClient.is_connected
    reconnect_enabled,           \* MQTTClient.reconnect_enabled
    current_reconnect_attempts,  \* MQTTClient.current_reconnect_attempts
    last_disconnect_time,        \* MQTTClient.last_disconnect_time (seconds)
    disconnect_count,            \* MQTTClient.disconnect_count
    ssl_enabled,                 \* MQTTClient._ssl_enabled
    ssl_monitor,                 \* an ssl_monitor thread is running
    workers,                     \* reconnect_worker threads: position -> count
    link,                        \* the paho client's session with the broker
    now,                         \* time.time() as MQTTClient reads it (seconds)
    message_queue,               \* DataForwarder.message_queue
    last_send_time,              \* DataForwarder.last_send_time (ticks)
    clock,                       \* time.time() as DataForwarder reads it (ticks)
    next_id,                     \* number of the next message submitted
    wire,                        \* messages _send_message handed over, in order
    store,                       \* the data store: key -> entry
    threads,                     \* the threads inside a publish or an increment
    api,                         \* the management API's reconnect call
    message_handlers,            \* MQTTClient.message_handlers, in dict order
    connection_callbacks,        \* MQTTClient.connection_callbacks
    disconnection_callbacks,     \* MQTTClient.disconnection_callbacks
    is_running,                  \* DataForwarder.is_running
    forward_task,                \* DataForwarder.forward_task
    last_forward_time,           \* DataForwarder.last_forward_time (ticks)
    mqtt_failure_count,          \* DataForwarder.mqtt_failure_count
    lifespan,                    \* main.lifespan's position in its shutdown
    ev                           \* the most recent handler's observation

vars == <<is_connected, reconnect_enabled, current_reconnect_attempts,
          last_disconnect_time, disconnect_count, ssl_enabled, ssl_monitor,
          workers, link, now, message_queue, last_send_time, clock, next_id,
          wire, store, threads, api, message_handlers, connection_callbacks,
          disconnection_callbacks, is_running, forward_task, last_forward_time, mqtt_failure_count,
          lifespan, ev>>

connVars == <<is_connected, reconnect_enabled, current_reconnect_attempts,
              last_disconnect_time, disconnect_count, ssl_enabled,
              ssl_monitor, workers, link, now, api>>

rateVars == <<message_queue, last_send_time, clock, next_id>>

\* what is registered with the connection manager
regVars == <<message_handlers, connection_callbacks, disconnection_callbacks>>

\* the forward loop
loopVars == <<is_running, forward_task, last_forward_time,
              mqtt_failure_count, lifespan>>

restVars == <<regVars, loopVars>>

-----------------------------------------------------------------------------
(* Bounds of the model *)

MaxWorkers == 2        \* reconnect_worker threads alive at once
MaxAttempts == 2       \* cap of current_reconnect_attempts
MaxDisconnects == 5    \* cap of disconnect_count
MaxTicks == 1          \* clock steps of the connection manager's clock
MaxMsgs == 3           \* messages submitted to the rate-limited publisher
MaxClock == 5          \* last tick of the forwarder's clock
MaxSegments == 3       \* segments of a pattern or a topic

-----------------------------------------------------------------------------
(* Program constants *)

min_disconnect_interval == 120
WaitVeryPoor == 300
WaitPoor == 120
WaitFair == 60
max_messages_per_second == 10

\* The configured mqtt max_reconnect_attempts (10 unless configured): the
\* model's configuration sets it below the cap of the attempt counter.
max_reconnect_attempts == 1

serious_errors == {1, 2, 3, 4, 5}
connection_error_codes == {4, 7, 15}

MQTT_ERR_SUCCESS == 0

\* The reason codes the disconnect callback is exercised with: clean (0),
\* bad credentials (4, serious) and connection lost (7, not serious, as every
\* code above 5 is).
ReasonCodes == {0, 4, 7}

\* The result codes client.publish is exercised with: success, no connection
\* (4, connection-related) and queue full (9, not connection-related).
PublishCodes == {0, 4, 9}

\* The connect-acknowledgment codes: accepted, and refused (not authorised).
ConnackCodes == {0, 5}

\* The connection manager's clock starts beyond every cooldown window after
\* the initial last_disconnect_time of 0, as time.time() does.
Epoch == WaitVeryPoor + WaitFair
TickStep == WaitFair

\* The reconnect configuration the config loader may hold.
ConfigReconnect == BOOLEAN

\* The forwarder's clock counts half send intervals.
TicksPerSecond == 2 * max_messages_per_second
send_interval == TicksPerSecond \div max_messages_per_second

\* the one element of a set of one
TheOne(S) == CHOOSE x \in S : TRUE

RECURSIVE Concat(_)
\* the sequences of a sequence, joined in order
Concat(seqs) ==
    IF seqs = <<>> THEN <<>> ELSE Head(seqs) \o Concat(Tail(seqs))

Min(a, b) == IF a < b THEN a ELSE b
Max(a, b) == IF a > b THEN a ELSE b

-----------------------------------------------------------------------------
(* The observation record *)

\* no request was delivered
NoRequest ==
    [shape |-> "none", msgId |-> "nil", source |-> "nil", device |-> <<>>,
     data_type |-> "nil", key |-> "nil", value |-> "nil"]

NoKey == <<>>
NoPattern == <<>>

\* what goes wrong in a cycle: nothing, keys(pattern) raises for one
\* pattern, the read of one key raises, or building or sending one batch
\* raises inside _send_property_data
NoFault == [kind |-> "none", pattern |-> NoPattern, key |-> NoKey, batch |-> 0]
PatternFault(p) == [NoFault EXCEPT !.kind = "pattern", !.pattern = p]
KeyFault(k) == [NoFault EXCEPT !.kind = "key", !.key = k]
BatchFault(j) == [NoFault EXCEPT !.kind = "batch", !.batch = j]

NoEv == [op |-> "init", rc |-> 0, conn |-> FALSE, en |-> FALSE,
         outside |-> FALSE, cnt |-> 0, sched |-> FALSE, handed |-> 0,
         ret |-> FALSE, replies |-> 0, active |-> 0, att |-> 0,
         early |-> FALSE, queued |-> FALSE, shape |-> "none",
         class |-> "none", msg |-> "none", prc |-> 0,
         req |-> NoRequest, redis |-> FALSE, before |-> "none",
         steps |-> <<>>, pattern |-> <<>>, topic |-> <<>>,
         calls |-> <<>>, level |-> "none", escaped |-> FALSE,
         batch_size |-> 0, fault |-> NoFault, patterns |-> <<>>, reads |-> 0,
         exclude |-> <<>>, data |-> <<>>, batches |-> <<>>, msgs |-> <<>>,
         status |-> "none", qos |-> 0, retain |-> FALSE, failed |-> <<>>,
         cfg |-> [reconnect |-> FALSE, ssl |-> FALSE], handlers |-> <<>>,
         callbacks |-> <<>>, wait |-> 0, probe |-> "none", closed |-> FALSE]

\* the operator has closed the connection and has asked for no reconnect or
\* reload since
ClosedSince(op, closed) ==
    IF op = "close" THEN TRUE
    ELSE IF op \in {"reload", "force_reconnect"} THEN FALSE
    ELSE closed

Observe(op) == [NoEv EXCEPT !.op = op, !.closed = ClosedSince(op, ev.closed)]

-----------------------------------------------------------------------------
(* The data store and the requests *)

Sources == {"modsrv"}
DataTypes == {"T"}
Devices == {<<"D", "_", "1">>}            \* device names, as character strings
FieldNames == {"v", "0"}                  \* the `key` of a request
Values == {"0", "x"}
MsgIds == {"m1"}
Nil == "nil"                              \* Python's None

\* device.replace('_', ' ')
DeviceWithSpaces(device) ==
    [i \in DOMAIN device |-> IF device[i] = "_" THEN " " ELSE device[i]]

\* the store key a request addresses: f"{source}:{device_with_spaces}:{data_type}"
RedisKey(source, device, data_type) ==
    <<source, DeviceWithSpaces(device), data_type>>

StoreKeys ==
    {RedisKey(s, d, t) : s \in Sources, d \in Devices, t \in DataTypes}

\* an entry of the store: its type and, under the field of that type, its
\* content; a key that does not exist has type "none"
NoFields == [f \in FieldNames |-> Nil]
Absent == [type |-> "none", hash |-> NoFields, str |-> Nil, list |-> <<>>,
           set |-> {}]
HashEntry(h) == [Absent EXCEPT !.type = "hash", !.hash = h]
StringEntry(v) == [Absent EXCEPT !.type = "string", !.str = v]
ListEntry(l) == [Absent EXCEPT !.type = "list", !.list = l]
SetEntry(m) == [Absent EXCEPT !.type = "set", !.set = m]

EmptyStore == [k \in StoreKeys |-> Absent]

\* the stores the gateway is started on: one key of each type, or none
InitStores ==
    LET k == RedisKey("modsrv", <<"D", "_", "1">>, "T")
    IN  {EmptyStore,
         [EmptyStore EXCEPT ![k] = HashEntry([NoFields EXCEPT !["v"] = "0"])],
         [EmptyStore EXCEPT ![k] = StringEntry("x")],
         [EmptyStore EXCEPT ![k] = ListEntry(<<"0">>)],
         [EmptyStore EXCEPT ![k] = SetEntry({"x"})]}

\* int(key) of a list index: the index, or -1 where int raises ValueError
IntKey(key) == IF key = "0" THEN 0 ELSE -1

\* the payloads a handler is delivered: text that is not JSON, a JSON number,
\* a JSON array, an object without the fields `source` .. `key` (with or
\* without a msgId), and a complete request
Request(shape, msg, device, key, value) ==
    [shape |-> shape, msgId |-> msg, source |-> "modsrv", device |-> device,
     data_type |-> "T", key |-> key, value |-> value]

\* the payloads that are not complete requests
BadRequests ==
    {Request(sh, Nil, <<"D", "_", "1">>, "v", "0") :
        sh \in {"not_json", "json_number", "json_list", "missing_field"}}
    \cup {Request("missing_field", m, <<"D", "_", "1">>, "v", "0") :
            m \in MsgIds}

WriteRequests ==
    BadRequests
    \cup {Request("valid", m, d, k, v) :
            m \in MsgIds, d \in Devices, k \in FieldNames, v \in Values}

\* a read request carries no value, a data call only its msgId
ReadRequests == {r \in WriteRequests : r.value = "0"}
CallRequests == {r \in ReadRequests : r.key = "v"}

-----------------------------------------------------------------------------
(* MQTTClient: pure parts *)

\* _get_network_quality_level
GetNetworkQualityLevel(c) ==
    IF c = 0 THEN "excellent"
    ELSE IF c <= 3 THEN "good"
    ELSE IF c <= 10 THEN "fair"
    ELSE IF c <= 20 THEN "poor"
    ELSE "very_poor"

\* _check_connection_stability: the wait time chosen for the quality level
WaitTime(c) ==
    LET network_quality == GetNetworkQualityLevel(c)
    IN  IF network_quality = "very_poor" THEN WaitVeryPoor
        ELSE IF network_quality = "poor" THEN WaitPoor
        ELSE IF network_quality = "fair" THEN WaitFair
        ELSE min_disconnect_interval

\* a stability check that never holds a reconnect back
CheckConnectionStabilityNoCooldown(current_time, last, c) == TRUE

\* _check_connection_stability: its result, read at current_time
CheckConnectionStability(current_time, last, c) ==
    ~(current_time - last < WaitTime(c))

\* _check_connection_stability: disconnect_count after the call
StabilityCount(current_time, last, c) ==
    IF current_time - last < WaitTime(c) THEN c + 1 ELSE 0

\* _is_connection_error
IsConnectionError(error_code) == error_code \in connection_error_codes

\* _on_disconnect: the reason codes that are reconnected
IsSeriousError(rc) == rc \in serious_errors

\* _on_disconnect: last_disconnect_time as the stability check reads it
DisconnectStamp(current_time, last) == current_time

\* a publish that does not look at the connection flag
PublishAllowedUnchecked(conn) == TRUE

\* publish: the guard of the hand-over to the client
PublishAllowed(conn) == conn

\* a connect callback that leaves the disconnect counter alone
ConnectKeepCount(c) == c

\* _on_connect: disconnect_count after a successful acknowledgment
ConnectResetCount(c) == IF c > 0 THEN 0 ELSE c

-----------------------------------------------------------------------------
(* MQTTClient: reconnect worker threads *)

\* the positions of a reconnect_worker thread: at the loop head, in its delay,
\* and inside connect(); `workers` counts the threads at each position
WorkerPcs == {"loop", "sleep", "wait"}

NoWorkers == [pc \in WorkerPcs |-> 0]

\* no thread is inside client.publish, no worker between the load and the
\* store of `self.current_reconnect_attempts += 1`
NoThreads == [callback |-> "idle", pipeline |-> "idle", regs |-> <<>>]

ActiveWorkers(ws) == ws["loop"] + ws["sleep"] + ws["wait"]

\* the model has room for one more thread
CanStart(ws) == ActiveWorkers(ws) < MaxWorkers

\* _start_reconnect: a new thread is created and started, whatever runs already
StartReconnect(ws) == [ws EXCEPT !["loop"] = @ + 1]

\* a thread goes from one position to another, or ends
WorkerMoves(ws, from, to) == [ws EXCEPT ![from] = @ - 1, ![to] = @ + 1]
WorkerEnds(ws, from) == [ws EXCEPT ![from] = @ - 1]

\* the session after client.disconnect() with the network loop running
ClientDisconnect(l) == IF l \in {"up", "pending"} THEN "closing" ELSE l

-----------------------------------------------------------------------------
(* MQTTClient: callbacks of the network loop thread *)

\* The result codes client.publish gives inside the connect callback: the
\* callback runs on the network thread with the socket open, so the client
\* does not report a missing connection there.
OnlinePublishCodes == PublishCodes \ connection_error_codes

\* MQTTClient.publish: the arguments client.publish is called with
PublishArgs(qos, retain) == [qos |-> qos, retain |-> retain]

\* asyncio.get_running_loop() gives a loop on the event loop's thread alone;
\* the connect callback runs on the client's network thread, which
\* loop_start creates
RunningLoop(thread) == thread = "event_loop"

\* the ids of the callbacks, in order
Ids(callbacks) == [i \in 1 .. Len(callbacks) |-> callbacks[i].id]

CallbackIds(callbacks) == {callbacks[i].id : i \in 1 .. Len(callbacks)}

\* whether _on_connect's loop invokes the callback: a function is called; a
\* coroutine function is called and handed to the running loop as a task, and
\* skipped with a warning where no loop runs
IsCalled(callback, thread) == ~callback.coroutine \/ RunningLoop(thread)

\* _on_connect's loop over connection_callbacks: the callbacks it invokes, in
\* order
ConnectionCallbackCalls(callbacks, thread) ==
    LET Called(callback) == IsCalled(callback, thread)
    IN  Ids(SelectSeq(callbacks, Called))

\* the calls that raised, each caught and logged inside the loop
FailedCalls(callbacks, thread, raising) ==
    LET Raised(callback) ==
            IsCalled(callback, thread) /\ callback.id \in raising
    IN  SelectSeq(callbacks, Raised)

\* _on_connect(client, userdata, flags, rc), with the result prc of the
\* online status message's client.publish (_send_online_message_sync)
OnConnect(rc, prc) ==
    /\ link = "pending"
    /\ rc = 0 \/ prc = MQTT_ERR_SUCCESS
    /\ IF rc = 0
       THEN /\ is_connected' = TRUE
            /\ current_reconnect_attempts' = 0
            /\ disconnect_count' = ConnectResetCount(disconnect_count)
            /\ link' = "up"
            /\ \E raising \in SUBSET CallbackIds(connection_callbacks) :
                  ev' = [Observe("on_connect") EXCEPT
                        !.rc = rc, !.conn = is_connected,
                        !.cnt = disconnect_count,
                        !.att = current_reconnect_attempts, !.handed = 1,
                        !.ret = (prc = MQTT_ERR_SUCCESS),
                        !.status = "online",
                        !.qos = PublishArgs(1, TRUE).qos,
                        !.retain = PublishArgs(1, TRUE).retain,
                        !.calls = ConnectionCallbackCalls(
                                      connection_callbacks, "network"),
                        !.failed = Ids(FailedCalls(connection_callbacks,
                                                   "network", raising)),
                        !.level = IF \E i \in 1 .. Len(connection_callbacks) :
                                        ~IsCalled(connection_callbacks[i],
                                                  "network")
                                  THEN "warning"
                                  ELSE "none"]
       ELSE /\ is_connected' = FALSE
            /\ link' = "pending"
            /\ ev' = [Observe("on_connect") EXCEPT
                        !.rc = rc, !.conn = is_connected,
                        !.cnt = disconnect_count]
            /\ UNCHANGED <<current_reconnect_attempts, disconnect_count>>
    /\ UNCHANGED restVars
    /\ UNCHANGED <<reconnect_enabled, last_disconnect_time, ssl_enabled,
                   ssl_monitor, workers, now, api, rateVars, wire, store, threads>>

\* _on_disconnect's loop over disconnection_callbacks: the callbacks it
\* invokes, in order; a function is called, a coroutine function is handed to
\* the running loop as a task and skipped with a warning where no loop runs
DisconnectionCallbackCalls(callbacks, thread) ==
    LET Called(callback) == IsCalled(callback, thread)
    IN  Ids(SelectSeq(callbacks, Called))

\* _on_disconnect(client, userdata, rc), on the client's network thread
OnDisconnect(rc) ==
    /\ IF rc = 0 THEN link = "closing" ELSE link \in {"up", "pending"}
    /\ rc # 0 => disconnect_count < MaxDisconnects
    /\ LET stamp == IF rc # 0
                    THEN DisconnectStamp(now, last_disconnect_time)
                    ELSE last_disconnect_time
           stable == CheckConnectionStability(now, stamp, disconnect_count)
           sched == /\ rc # 0
                    /\ stable
                    /\ IsSeriousError(rc)
                    /\ reconnect_enabled
       IN  /\ sched => CanStart(workers)
           /\ is_connected' = FALSE
           /\ last_disconnect_time' = stamp
           /\ disconnect_count' =
                  IF rc # 0
                  THEN StabilityCount(now, stamp, disconnect_count)
                  ELSE disconnect_count
           /\ workers' = IF sched THEN StartReconnect(workers) ELSE workers
           /\ link' = IF rc = 0 THEN "down" ELSE "pending"
           /\ ev' = [Observe("on_disconnect") EXCEPT
                       !.rc = rc, !.conn = is_connected,
                       !.en = reconnect_enabled,
                       !.outside = (now - last_disconnect_time
                                       >= WaitTime(disconnect_count)),
                       !.cnt = disconnect_count, !.sched = sched,
                       !.active = ActiveWorkers(workers),
                       !.att = current_reconnect_attempts,
                       !.calls = DisconnectionCallbackCalls(
                                     disconnection_callbacks, "network"),
                       !.callbacks = disconnection_callbacks]
    /\ UNCHANGED restVars
    /\ UNCHANGED <<reconnect_enabled, current_reconnect_attempts, ssl_enabled,
                   ssl_monitor, now, api, rateVars, wire, store, threads>>

-----------------------------------------------------------------------------
(* MQTTClient: publish and the forced disconnect *)

\* publish(topic, payload, qos, retain) called in the connection state c with
\* the result prc of client.publish: the connection state afterwards, whether
\* the message was handed over and the value returned; on a connection error
\* code it runs _handle_connection_error
PublishResult(c, prc) ==
    LET hand == PublishAllowed(c.is_connected)
        err == hand /\ IsConnectionError(prc)
        spawn == err /\ c.reconnect_enabled
    IN  [is_connected |-> IF err THEN FALSE ELSE c.is_connected,
         reconnect_enabled |-> c.reconnect_enabled,
         link |-> IF err THEN ClientDisconnect(c.link) ELSE c.link,
         workers |-> IF spawn /\ CanStart(c.workers)
                     THEN StartReconnect(c.workers)
                     ELSE c.workers,
         handed |-> hand,
         ret |-> hand /\ prc = MQTT_ERR_SUCCESS,
         spawn |-> spawn]

\* the connection state publish reads and writes
Connection ==
    [is_connected |-> is_connected, reconnect_enabled |-> reconnect_enabled,
     link |-> link, workers |-> workers]

\* one call of publish
Publish(prc) ==
    LET p == PublishResult(Connection, prc)
    IN  /\ p.handed \/ prc = MQTT_ERR_SUCCESS
        /\ p.spawn => CanStart(workers)
        /\ is_connected' = p.is_connected
        /\ link' = p.link
        /\ workers' = p.workers
        /\ ev' = [Observe("publish") EXCEPT
                    !.rc = prc, !.prc = prc, !.conn = is_connected,
                    !.en = reconnect_enabled,
                    !.handed = IF p.handed THEN 1 ELSE 0,
                    !.ret = p.ret,
                    !.sched = p.spawn, !.active = ActiveWorkers(workers)]
        /\ UNCHANGED restVars
        /\ UNCHANGED <<reconnect_enabled, current_reconnect_attempts,
                       last_disconnect_time, disconnect_count, ssl_enabled,
                       ssl_monitor, now, api, rateVars, wire, store, threads>>

\* ssl_monitor detects a broken socket and runs _handle_ssl_error
SslMonitorError ==
    /\ ssl_monitor
    /\ is_connected
    /\ reconnect_enabled => CanStart(workers)
    /\ is_connected' = FALSE
    /\ link' = "down"
    /\ ssl_monitor' = FALSE
    /\ workers' = IF reconnect_enabled THEN StartReconnect(workers) ELSE workers
    /\ ev' = [Observe("ssl_error") EXCEPT
                !.conn = is_connected, !.en = reconnect_enabled,
                !.sched = reconnect_enabled,
                !.active = ActiveWorkers(workers)]
    /\ UNCHANGED restVars
    /\ UNCHANGED <<reconnect_enabled, current_reconnect_attempts,
                   last_disconnect_time, disconnect_count, ssl_enabled, now,
                   api, rateVars, wire, store, threads>>

\* ssl_monitor leaves its loop once is_connected is false
SslMonitorExit ==
    /\ ssl_monitor
    /\ ~is_connected
    /\ ssl_monitor' = FALSE
    /\ ev' = Observe("ssl_exit")
    /\ UNCHANGED restVars
    /\ UNCHANGED <<is_connected, reconnect_enabled, current_reconnect_attempts,
                   last_disconnect_time, disconnect_count, ssl_enabled,
                   workers, link, now, api, rateVars, wire, store, threads>>

-----------------------------------------------------------------------------
(* MQTTClient: the reconnect worker *)

\* a worker that gives up once the configured number of attempts is made
LoopRunsUpToMax(conn, attempts) ==
    ~conn /\ attempts < max_reconnect_attempts

\* reconnect_worker: the loop condition, `while not self.is_connected`, after
\* `attempts` attempts
LoopRuns(conn, attempts) == ~conn

\* what a reconnect_worker step saw and made
ObserveWorker(op) ==
    [Observe(op) EXCEPT
        !.conn = is_connected, !.en = reconnect_enabled,
        !.att = current_reconnect_attempts,
        !.active = ActiveWorkers(workers)]

\* reconnect_worker: the loop head, `while not self.is_connected`, and the
\* attempt counter's increment
WorkerLoop ==
    /\ workers["loop"] > 0
    /\ IF ~LoopRuns(is_connected, current_reconnect_attempts)
       THEN /\ workers' = WorkerEnds(workers, "loop")
            /\ UNCHANGED current_reconnect_attempts
       ELSE /\ current_reconnect_attempts < MaxAttempts
            /\ current_reconnect_attempts' = current_reconnect_attempts + 1
            /\ workers' = WorkerMoves(workers, "loop", "sleep")
    /\ ev' = ObserveWorker("worker_loop")
    /\ UNCHANGED restVars
    /\ UNCHANGED <<is_connected, reconnect_enabled, last_disconnect_time,
                   disconnect_count, ssl_enabled, ssl_monitor, link, now, api,
                   rateVars, wire, store, threads>>

\* _check_network_health(): the socket reached host:port
CheckNetworkHealth(outcome) == outcome # "unreachable"

\* a worker that connects without looking at the probe
ConnectCalledUnprobed(outcome, conn) == ~conn

\* reconnect_worker after its delay: `continue` if the probe failed, and
\* connect() only `if not self.is_connected`
ConnectCalled(outcome, conn) == CheckNetworkHealth(outcome) /\ ~conn

\* reconnect_worker: after the delay, _check_network_health and the call of
\* connect(); outcome is "unreachable" (the probe fails), "raised"
\* (client.connect raises) or "started" (the network loop is started)
WorkerWake(outcome) ==
    /\ workers["sleep"] > 0
    /\ IF ConnectCalled(outcome, is_connected) /\ outcome = "started"
       THEN /\ link' = "pending"
            /\ workers' = WorkerMoves(workers, "sleep", "wait")
       ELSE /\ link' = link
            /\ workers' = WorkerMoves(workers, "sleep", "loop")
    /\ ev' = [ObserveWorker("worker_wake") EXCEPT
                !.ret = (outcome = "started" /\ ~is_connected),
                !.probe = IF CheckNetworkHealth(outcome) THEN "ok"
                          ELSE "failed",
                !.sched = ConnectCalled(outcome, is_connected)]
    /\ UNCHANGED restVars
    /\ UNCHANGED <<is_connected, reconnect_enabled, current_reconnect_attempts,
                   last_disconnect_time, disconnect_count, ssl_enabled,
                   ssl_monitor, now, api, rateVars, wire, store, threads>>

\* reconnect_worker: connect() returns, true if is_connected was seen within
\* the timeout and false otherwise
WorkerConnectReturn ==
    /\ workers["wait"] > 0
    /\ IF is_connected
       THEN /\ workers' = WorkerEnds(workers, "wait")
            /\ ssl_monitor' = (ssl_monitor \/ ssl_enabled)
       ELSE /\ workers' = WorkerMoves(workers, "wait", "loop")
            /\ ssl_monitor' = ssl_monitor
    /\ ev' = [ObserveWorker("worker_connect") EXCEPT !.ret = is_connected]
    /\ UNCHANGED restVars
    /\ UNCHANGED <<is_connected, reconnect_enabled, current_reconnect_attempts,
                   last_disconnect_time, disconnect_count, ssl_enabled, link,
                   now, api, rateVars, wire, store, threads>>

-----------------------------------------------------------------------------
(* MQTTClient: the operations of the management API *)

\* _setup_will_message: the arguments of client.will_set
WillArgs == [qos |-> 1, retain |-> TRUE]

\* _setup_client: what it does to the client, in order; without a broker
\* section in the configuration it returns before it creates a client
SetupClient(broker) ==
    IF broker THEN <<"new_client", "will_set", "callbacks">> ELSE <<>>

\* connect: what it does up to its wait for the acknowledgment; raised says
\* client.connect raised
ConnectSteps(broker, raised) ==
    IF ~broker THEN <<>>
    ELSE IF raised THEN <<"client_connect">>
    ELSE <<"client_connect", "loop_start", "wait">>

\* a reload that connects before it reloads
ReloadStepsConnectFirst(conn, broker, raised) ==
    ConnectSteps(broker, raised) \o <<"reload_config">> \o SetupClient(broker)

\* reload_config_and_reconnect: what it does, in order
ReloadSteps(conn, broker, raised) ==
    (IF conn THEN <<"disconnect">> ELSE <<>>)
        \o <<"loop_stop", "reload_config">>
        \o SetupClient(broker) \o ConnectSteps(broker, raised)

\* reload_config_and_reconnect up to the wait in connect(): disconnect(),
\* loop_stop, _setup_client with the reloaded configuration, client.connect
ReloadConfigAndReconnect(cfg_reconnect, cfg_ssl, raised, broker) ==
    /\ api = "idle"
    /\ is_connected' = FALSE
    /\ reconnect_enabled' = IF broker THEN cfg_reconnect ELSE reconnect_enabled
    /\ ssl_enabled' = IF broker THEN cfg_ssl ELSE ssl_enabled
    /\ link' = IF raised \/ ~broker THEN "down" ELSE "pending"
    /\ api' = IF raised \/ ~broker THEN "idle" ELSE "wait"
    /\ ev' = [Observe("reload") EXCEPT
                !.conn = is_connected,
                !.steps = ReloadSteps(is_connected, broker, raised),
                !.en = broker,
                !.cfg = [reconnect |-> cfg_reconnect, ssl |-> cfg_ssl],
                !.handlers = message_handlers,
                !.callbacks = connection_callbacks,
                !.status = IF broker THEN "will" ELSE "none",
                !.qos = IF broker THEN WillArgs.qos ELSE 0,
                !.retain = IF broker THEN WillArgs.retain ELSE FALSE]
    /\ UNCHANGED restVars
    /\ UNCHANGED <<current_reconnect_attempts, last_disconnect_time,
                   disconnect_count, ssl_monitor, workers, now, rateVars,
                   wire, store, threads>>

\* a connect that reports success whatever the wait ended with
ConnectResultTrue(conn) == TRUE

\* connect after its wait: true if is_connected is set, false at the timeout
ConnectResult(conn) == conn

\* reload_config_and_reconnect or force_reconnect: connect() returns
ReloadReturn ==
    /\ api = "wait"
    /\ api' = "idle"
    /\ ssl_monitor' = (ssl_monitor \/ (is_connected /\ ssl_enabled))
    /\ ev' = [Observe("reload_return") EXCEPT
                !.ret = ConnectResult(is_connected), !.conn = is_connected,
                !.before = link]
    /\ UNCHANGED restVars
    /\ UNCHANGED <<is_connected, reconnect_enabled, current_reconnect_attempts,
                   last_disconnect_time, disconnect_count, ssl_enabled,
                   workers, link, now, rateVars, wire, store, threads>>

\* close_connection
CloseConnection ==
    /\ api = "idle"
    /\ IF is_connected
       THEN /\ reconnect_enabled' = FALSE
            /\ is_connected' = FALSE
            /\ link' = "down"
       ELSE UNCHANGED <<reconnect_enabled, is_connected, link>>
    /\ ev' = [Observe("close") EXCEPT !.conn = is_connected, !.ret = TRUE]
    /\ UNCHANGED restVars
    /\ UNCHANGED <<current_reconnect_attempts, last_disconnect_time,
                   disconnect_count, ssl_enabled, ssl_monitor, workers, now,
                   api, rateVars, wire, store, threads>>

\* the passage of time between the connection manager's handlers
Tick ==
    /\ now < Epoch + MaxTicks * TickStep
    /\ now' = now + TickStep
    /\ ev' = Observe("tick")
    /\ UNCHANGED restVars
    /\ UNCHANGED <<is_connected, reconnect_enabled, current_reconnect_attempts,
                   last_disconnect_time, disconnect_count, ssl_enabled,
                   ssl_monitor, workers, link, api, rateVars, wire, store, threads>>

-----------------------------------------------------------------------------
(* The specification of the connection manager. The broker is reached over
   TLS, as the AWS IoT configuration has it, and a reload keeps that setting:
   the monitor thread of a TLS session only adds steps, so the sessions
   without TLS are the behaviours in which the monitor never acts. *)

Init ==
    /\ is_connected = FALSE
    /\ reconnect_enabled \in ConfigReconnect
    /\ current_reconnect_attempts = 0
    /\ last_disconnect_time = 0
    /\ disconnect_count = 0
    /\ ssl_enabled = TRUE
    /\ ssl_monitor = FALSE
    /\ workers = NoWorkers
    /\ link = "down"
    /\ now = Epoch
    /\ api = "idle"
    /\ message_queue = <<>>
    /\ last_send_time = 0
    /\ clock = send_interval
    /\ next_id = 1
    /\ wire = <<>>
    /\ store = EmptyStore
    /\ threads = NoThreads
    /\ message_handlers = <<>>
    /\ connection_callbacks = <<>>
    /\ disconnection_callbacks = <<>>
    /\ is_running = FALSE
    /\ forward_task = "none"
    /\ last_forward_time = 0
    /\ mqtt_failure_count = 0
    /\ lifespan = "serving"
    /\ ev = NoEv

Next ==
    \/ \E rc \in ConnackCodes, prc \in OnlinePublishCodes : OnConnect(rc, prc)
    \/ \E rc \in ReasonCodes : OnDisconnect(rc)
    \/ \E prc \in PublishCodes : Publish(prc)
    \/ SslMonitorError
    \/ SslMonitorExit
    \/ WorkerLoop
    \/ \E o \in {"unreachable", "raised", "started"} : WorkerWake(o)
    \/ WorkerConnectReturn
    \/ \E c \in ConfigReconnect, r \in BOOLEAN :
           ReloadConfigAndReconnect(c, ssl_enabled, r, TRUE)
    \/ ReloadReturn
    \/ CloseConnection
    \/ Tick

Spec == Init /\ [][Next]_vars

\* The reconnect worker under fair scheduling. Its thread is a daemon thread
\* the interpreter keeps scheduling (weak fairness of its steps); a broker that
\* stays reachable lets the connectivity probe succeed at some attempt (strong
\* fairness: the probe is only tried while the worker is past its sleep) and
\* answers the pending connect with CONNACK 0.
\* the state once startup has called connect(): the client is waiting for
\* the broker's answer
InitLive ==
    /\ is_connected = FALSE
    /\ reconnect_enabled \in ConfigReconnect
    /\ current_reconnect_attempts = 0
    /\ last_disconnect_time = 0
    /\ disconnect_count = 0
    /\ ssl_enabled \in BOOLEAN
    /\ ssl_monitor = FALSE
    /\ workers = NoWorkers
    /\ link = "pending"
    /\ now = Epoch
    /\ api = "idle"
    /\ message_queue = <<>>
    /\ last_send_time = 0
    /\ clock = send_interval
    /\ next_id = 1
    /\ wire = <<>>
    /\ store = EmptyStore
    /\ threads = NoThreads
    /\ message_handlers = <<>>
    /\ connection_callbacks = <<>>
    /\ disconnection_callbacks = <<>>
    /\ is_running = FALSE
    /\ forward_task = "none"
    /\ last_forward_time = 0
    /\ mqtt_failure_count = 0
    /\ lifespan = "serving"
    /\ ev = NoEv

NextLive ==
    \/ \E rc \in ConnackCodes, prc \in OnlinePublishCodes : OnConnect(rc, prc)
    \/ \E rc \in ReasonCodes : OnDisconnect(rc)
    \/ \E prc \in PublishCodes : Publish(prc)
    \/ WorkerLoop
    \/ \E o \in {"unreachable", "raised", "started"} : WorkerWake(o)
    \/ WorkerConnectReturn

WorkerFairness ==
    /\ WF_vars(WorkerLoop)
    /\ SF_vars(WorkerWake("started"))
    /\ WF_vars(WorkerConnectReturn)

BrokerReachable ==
    WF_vars(\E prc \in OnlinePublishCodes : OnConnect(0, prc))

SpecLive == InitLive /\ [][NextLive]_vars /\ WorkerFairness /\ BrokerReachable

-----------------------------------------------------------------------------
(* DataForwarder: the rate-limited send path *)

\* _send_message: the message is handed to client.publish only if connected
SendMessageHands(conn) == conn

\* _rate_limited_send: the message is sent directly, not queued
SendsDirectly(current_time, last) == ~(current_time - last < send_interval)

\* a send budget without the minimum of one message
MaxSendCountNoMinimum(time_since_last_send) ==
    (time_since_last_send * max_messages_per_second) \div TicksPerSecond

\* _process_message_queue: max_send_count after time_since_last_send ticks
MaxSendCount(time_since_last_send) ==
    Max(1, (time_since_last_send * max_messages_per_second)
               \div TicksPerSecond)

\* _process_message_queue: the number of messages popped and sent
SentCount(q, time_since_last_send) ==
    IF q = <<>> THEN 0 ELSE Min(Len(q), MaxSendCount(time_since_last_send))

\* _process_message_queue: the transmissions of the first n queued messages,
\* the first at once and each later one send_interval after the one before
QueueSends(q, n, start) ==
    [i \in 1 .. n |-> [id |-> q[i], at |-> start + (i - 1) * send_interval]]

\* the forwarder's fields and clock as one value
Forwarder ==
    [queue |-> message_queue, last |-> last_send_time, clock |-> clock,
     next |-> next_id, wire |-> wire]

\* _rate_limited_send up to `if self.message_queue`: the message numbered
\* fw.next is sent directly, or joins the queue
EnterSend(fw, conn) ==
    LET m == fw.next
        direct == SendsDirectly(fw.clock, fw.last)
    IN  [queue |-> IF direct THEN fw.queue ELSE Append(fw.queue, m),
         last |-> IF direct THEN fw.clock ELSE fw.last,
         clock |-> fw.clock,
         next |-> m + 1,
         wire |-> IF direct /\ SendMessageHands(conn)
                  THEN Append(fw.wire, [id |-> m, at |-> fw.clock])
                  ELSE fw.wire]

\* _rate_limited_send from `if self.message_queue` on:
\* _process_message_queue if the queue holds a message
DrainQueue(fw, conn) ==
    LET n == SentCount(fw.queue, fw.clock - fw.last)
        finish == IF n > 0
                  THEN fw.clock + (n - 1) * send_interval
                  ELSE fw.clock
    IN  [queue |-> SubSeq(fw.queue, n + 1, Len(fw.queue)),
         last |-> IF n > 0 THEN finish ELSE fw.last,
         clock |-> finish,
         next |-> fw.next,
         wire |-> IF SendMessageHands(conn)
                  THEN fw.wire \o QueueSends(fw.queue, n, fw.clock)
                  ELSE fw.wire]

\* _rate_limited_send(topic, payload, qos) for the message numbered fw.next,
\* _process_message_queue included: the forwarder afterwards
RateLimited(fw, conn) == DrainQueue(EnterSend(fw, conn), conn)

\* the forwarder's fields and clock take the value fw
SetForwarder(fw) ==
    /\ message_queue' = fw.queue
    /\ last_send_time' = fw.last
    /\ clock' = fw.clock
    /\ next_id' = fw.next
    /\ wire' = fw.wire

InQueue(q, m) == \E i \in 1 .. Len(q) : q[i] = m

\* one call of _rate_limited_send; prc is the result of client.publish, which
\* _send_message turns into its return value
RateLimitedSend(prc) ==
    LET fw == RateLimited(Forwarder, is_connected)
    IN  /\ next_id <= MaxMsgs
        /\ fw.clock <= MaxClock
        /\ is_connected \/ prc = MQTT_ERR_SUCCESS
        /\ SetForwarder(fw)
        /\ ev' = [Observe("rate_limited_send") EXCEPT
                    !.rc = next_id, !.prc = prc, !.conn = is_connected,
                    !.early = ~SendsDirectly(clock, last_send_time),
                    !.handed = Len(fw.wire) - Len(wire),
                    !.ret = (SendMessageHands(is_connected)
                                /\ prc = MQTT_ERR_SUCCESS),
                    !.queued = InQueue(fw.queue, next_id)]
        /\ UNCHANGED restVars
        /\ UNCHANGED <<connVars, store, threads>>

\* the passage of time between the forwarder's sends
ForwarderTick ==
    /\ clock < MaxClock
    /\ clock' = clock + 1
    /\ ev' = Observe("forwarder_tick")
    /\ UNCHANGED restVars
    /\ UNCHANGED <<connVars, message_queue, last_send_time, next_id, wire,
                   store, threads>>

\* The forwarder runs once the operator's reconnect request has opened the
\* session: the state after ReloadConfigAndReconnect's client.connect.
InitRate ==
    /\ is_connected = FALSE
    /\ reconnect_enabled \in ConfigReconnect
    /\ current_reconnect_attempts = 0
    /\ last_disconnect_time = 0
    /\ disconnect_count = 0
    /\ ssl_enabled = FALSE
    /\ ssl_monitor = FALSE
    /\ workers = NoWorkers
    /\ link = "pending"
    /\ now = Epoch
    /\ api = "wait"
    /\ message_queue = <<>>
    /\ last_send_time = 0
    /\ clock = send_interval
    /\ next_id = 1
    /\ wire = <<>>
    /\ store = EmptyStore
    /\ threads = NoThreads
    /\ message_handlers = <<>>
    /\ connection_callbacks = <<>>
    /\ disconnection_callbacks = <<>>
    /\ is_running = FALSE
    /\ forward_task = "none"
    /\ last_forward_time = 0
    /\ mqtt_failure_count = 0
    /\ lifespan = "serving"
    /\ ev = [NoEv EXCEPT !.op = "reload"]

NextRate ==
    \/ \E rc \in ConnackCodes, prc \in OnlinePublishCodes : OnConnect(rc, prc)
    \/ \E rc \in ReasonCodes : OnDisconnect(rc)
    \/ \E prc \in PublishCodes : Publish(prc)
    \/ \E prc \in PublishCodes : RateLimitedSend(prc)
    \/ ForwarderTick

SpecRate == InitRate /\ [][NextRate]_vars

-----------------------------------------------------------------------------
(* The threads. Handlers and the connect callback run on the client's network
   thread, _send_message on the event loop's thread, every reconnect_worker on
   a thread of its own; no lock is taken anywhere. The interpreter may switch
   threads inside client.publish (MQTTClient.publish sleeps between its
   loop_write calls) and between the load and the store of
   `self.current_reconnect_attempts += 1`. *)

\* the calls of client.publish that are in progress
TransmissionsInProgress(th) ==
    (IF th.callback = "publish" THEN 1 ELSE 0)
        + (IF th.pipeline = "send" THEN 1 ELSE 0)

CallbackIdle == threads.callback = "idle"

\* MQTTClient.publish on the network thread, up to the call of client.publish
PublishBegin ==
    /\ CallbackIdle
    /\ link \in {"up", "closing"}
    /\ threads' = IF PublishAllowed(is_connected)
                  THEN [threads EXCEPT !.callback = "publish"]
                  ELSE threads
    /\ ev' = [Observe("publish_begin") EXCEPT
                !.conn = is_connected,
                !.handed = IF PublishAllowed(is_connected) THEN 1 ELSE 0,
                !.active = TransmissionsInProgress(threads)]
    /\ UNCHANGED restVars
    /\ UNCHANGED <<connVars, rateVars, wire, store>>

\* MQTTClient.publish from the result prc of client.publish on: the loop_write
\* calls, or _handle_connection_error on a connection error code
PublishEnd(prc) ==
    /\ threads.callback = "publish"
    /\ LET err == IsConnectionError(prc)
           spawn == err /\ reconnect_enabled
       IN  /\ spawn => CanStart(workers)
           /\ is_connected' = IF err THEN FALSE ELSE is_connected
           /\ link' = IF err THEN ClientDisconnect(link) ELSE link
           /\ workers' = IF spawn THEN StartReconnect(workers) ELSE workers
           /\ ev' = [Observe("publish_end") EXCEPT
                       !.rc = prc, !.conn = is_connected,
                       !.ret = (prc = MQTT_ERR_SUCCESS), !.sched = spawn]
    /\ threads' = [threads EXCEPT !.callback = "idle"]
    /\ UNCHANGED restVars
    /\ UNCHANGED <<reconnect_enabled, current_reconnect_attempts,
                   last_disconnect_time, disconnect_count, ssl_enabled,
                   ssl_monitor, now, api, rateVars, wire, store>>

\* DataForwarder._send_message on the event loop's thread, up to the call of
\* client.publish for the message numbered next_id
SendBegin ==
    /\ threads.pipeline = "idle"
    /\ next_id <= MaxMsgs
    /\ next_id' = next_id + 1
    /\ IF SendMessageHands(is_connected)
       THEN /\ threads' = [threads EXCEPT !.pipeline = "send"]
            /\ wire' = Append(wire, [id |-> next_id, at |-> clock])
       ELSE UNCHANGED <<threads, wire>>
    /\ ev' = [Observe("send_begin") EXCEPT
                !.rc = next_id, !.conn = is_connected,
                !.handed = IF SendMessageHands(is_connected) THEN 1 ELSE 0,
                !.active = TransmissionsInProgress(threads)]
    /\ UNCHANGED restVars
    /\ UNCHANGED <<connVars, message_queue, last_send_time, clock, store>>

\* DataForwarder._send_message from the result prc of client.publish on
SendEnd(prc) ==
    /\ threads.pipeline = "send"
    /\ threads' = [threads EXCEPT !.pipeline = "idle"]
    /\ ev' = [Observe("send_end") EXCEPT
                !.rc = prc, !.conn = is_connected,
                !.ret = (prc = MQTT_ERR_SUCCESS)]
    /\ UNCHANGED restVars
    /\ UNCHANGED <<connVars, rateVars, wire, store>>

\* the sequence without its i-th element
RemoveAt(seq, i) == SubSeq(seq, 1, i - 1) \o SubSeq(seq, i + 1, Len(seq))

\* reconnect_worker: the loop head and the load of
\* `self.current_reconnect_attempts += 1`
WorkerLoad ==
    /\ workers["loop"] > Len(threads.regs)
    /\ IF ~LoopRuns(is_connected, current_reconnect_attempts)
       THEN /\ workers' = WorkerEnds(workers, "loop")
            /\ UNCHANGED threads
       ELSE /\ current_reconnect_attempts < MaxAttempts
            /\ threads' = [threads EXCEPT
                              !.regs = Append(@, current_reconnect_attempts)]
            /\ UNCHANGED workers
    /\ ev' = ObserveWorker("worker_load")
    /\ UNCHANGED restVars
    /\ UNCHANGED <<is_connected, reconnect_enabled, current_reconnect_attempts,
                   last_disconnect_time, disconnect_count, ssl_enabled,
                   ssl_monitor, link, now, api, rateVars, wire, store>>

\* reconnect_worker: the store of `self.current_reconnect_attempts += 1` by
\* the worker that loaded threads.regs[i]
WorkerStore(i) ==
    /\ i \in 1 .. Len(threads.regs)
    /\ current_reconnect_attempts' = threads.regs[i] + 1
    /\ threads' = [threads EXCEPT !.regs = RemoveAt(@, i)]
    /\ workers' = WorkerMoves(workers, "loop", "sleep")
    /\ ev' = [ObserveWorker("worker_store") EXCEPT !.cnt = threads.regs[i]]
    /\ UNCHANGED restVars
    /\ UNCHANGED <<is_connected, reconnect_enabled, last_disconnect_time,
                   disconnect_count, ssl_enabled, ssl_monitor, link, now, api,
                   rateVars, wire, store>>

NextThreads ==
    \/ CallbackIdle /\ \E rc \in ConnackCodes, prc \in OnlinePublishCodes :
                            OnConnect(rc, prc)
    \/ CallbackIdle /\ \E rc \in ReasonCodes : OnDisconnect(rc)
    \/ PublishBegin
    \/ \E prc \in PublishCodes : PublishEnd(prc)
    \/ SendBegin
    \/ \E prc \in PublishCodes : SendEnd(prc)
    \/ WorkerLoad
    \/ \E i \in 1 .. MaxWorkers : WorkerStore(i)
    \/ \E o \in {"unreachable", "raised", "started"} : WorkerWake(o)
    \/ WorkerConnectReturn

SpecThreads == InitLive /\ [][NextThreads]_vars

-----------------------------------------------------------------------------
(* PointReader, PointWriter and DataCaller: the request handlers *)

Reply(class, msg) == [class |-> class, msgId |-> msg]

\* a reply that never takes the request's msgId
MsgIdDropped(req, default) == default

\* request_data.get('msgId', 'unknown')
MsgIdOr(req, default) == IF req.msgId = Nil THEN default ELSE req.msgId

\* PointReader._get_redis_data: the value found, or Nil
GetRedisData(st, redis_up, source, device, data_type, key) ==
    LET entry == st[RedisKey(source, device, data_type)]
        index == IntKey(key)
    IN  IF ~redis_up THEN Nil
        ELSE IF entry.type = "hash" THEN entry.hash[key]
        ELSE IF entry.type = "string" THEN entry.str
        ELSE IF entry.type = "list"
             THEN IF index >= 0 /\ index < Len(entry.list)
                  THEN entry.list[index + 1]
                  ELSE Nil
        ELSE IF entry.type = "set"
             THEN IF key \in entry.set THEN "exists" ELSE Nil
        ELSE Nil

\* PointReader._handle_read_request with _process_read_request: the replies it
\* passes to publish
ReadReplies(st, redis_up, req) ==
    IF req.shape = "not_json"
    THEN <<Reply("json_parse_error", "unknown")>>
    ELSE IF req.shape = "json_number"
    THEN <<Reply("general_error", "unknown")>>
    ELSE IF req.shape = "json_list"
    THEN <<>>
    ELSE IF req.shape = "missing_field"
    THEN <<Reply("validation_failed", MsgIdOr(req, "unknown"))>>
    ELSE IF GetRedisData(st, redis_up, req.source, req.device, req.data_type,
                         req.key) # Nil
    THEN <<Reply("data", req.msgId)>>
    ELSE <<>>

\* a writer that creates nothing
WriteRedisDataNoCreate(st, redis_up, source, device, data_type, key, value) ==
    [ok |-> FALSE, store |-> st]

\* PointWriter._write_redis_data: whether it succeeded, and the store afterwards
WriteRedisData(st, redis_up, source, device, data_type, key, value) ==
    LET redis_key == RedisKey(source, device, data_type)
        entry == st[redis_key]
        index == IntKey(key)
    IN  IF ~redis_up THEN [ok |-> FALSE, store |-> st]
        ELSE IF entry.type = "none"
        THEN [ok |-> TRUE,
              store |-> [st EXCEPT ![redis_key] =
                            HashEntry([NoFields EXCEPT ![key] = value])]]
        ELSE IF entry.type = "hash"
        THEN [ok |-> TRUE,
              store |-> [st EXCEPT ![redis_key].hash[key] = value]]
        ELSE IF entry.type = "string"
        THEN [ok |-> TRUE, store |-> [st EXCEPT ![redis_key].str = value]]
        ELSE IF entry.type = "list"
        THEN IF index >= 0 /\ index < Len(entry.list)
             THEN [ok |-> TRUE,
                   store |-> [st EXCEPT ![redis_key].list[index + 1] = value]]
             ELSE [ok |-> FALSE, store |-> st]
        ELSE [ok |-> TRUE,
              store |-> [st EXCEPT ![redis_key].set = @ \cup {value}]]

\* whether _process_write_request runs for the request
WriteRuns(req) == req.shape = "valid"

\* PointWriter._handle_write_request with _process_write_request: the replies
\* it passes to publish
WriteReplies(st, redis_up, req) ==
    IF req.shape = "not_json"
    THEN <<Reply("json_parse_error", "unknown")>>
    ELSE IF req.shape = "json_number"
    THEN <<Reply("general_error", "unknown")>>
    ELSE IF req.shape = "json_list"
    THEN <<>>
    ELSE IF req.shape = "missing_field"
    THEN <<Reply("validation_failed", MsgIdOr(req, "unknown"))>>
    ELSE IF WriteRedisData(st, redis_up, req.source, req.device,
                           req.data_type, req.key, req.value).ok
    THEN <<Reply("success", req.msgId)>>
    ELSE <<Reply("fail", req.msgId)>>

\* whether _process_call_data_request runs for the request: json.loads of an
\* array or a number gives a value without .get
CallRuns(req) == req.shape \in {"not_json", "missing_field", "valid"}

\* a data call that forwards first and acknowledges afterwards
CallStepsCycleFirst(req) ==
    IF CallRuns(req) THEN <<"cycle", "ack">> ELSE <<"error">>

\* DataCaller._handle_call_data_request with _process_call_data_request: what
\* the handler does, in order: the acknowledgment's publish and then
\* data_forwarder._forward_data(), or the error reply alone
CallSteps(req) ==
    IF CallRuns(req) THEN <<"ack", "cycle">> ELSE <<"error">>

\* DataCaller._handle_call_data_request with _process_call_data_request: the
\* replies it passes to publish
CallReplies(req) ==
    IF req.shape = "not_json"
    THEN <<Reply("success", "")>>
    ELSE IF CallRuns(req)
    THEN <<Reply("success", MsgIdOr(req, ""))>>
    ELSE <<Reply("general_error", "")>>

\* the connection state when a handler publishes nothing
NoPublish(c) ==
    [is_connected |-> c.is_connected,
     reconnect_enabled |-> c.reconnect_enabled,
     link |-> c.link, workers |-> c.workers,
     handed |-> FALSE, ret |-> FALSE, spawn |-> FALSE]

\* a handler publishes its replies
PublishReplies(c, replies, prc) ==
    IF replies = <<>> THEN NoPublish(c) ELSE PublishResult(c, prc)

\* the connection state takes the value p
SetConnection(p) ==
    /\ is_connected' = p.is_connected
    /\ link' = p.link
    /\ workers' = p.workers

\* what a handler did with the request
ObserveRequest(op, req, replies, p) ==
    [Observe(op) EXCEPT
        !.shape = req.shape, !.req = req, !.conn = is_connected,
        !.en = reconnect_enabled,
        !.replies = Len(replies),
        !.class = IF replies = <<>> THEN "none" ELSE replies[1].class,
        !.msg = IF replies = <<>> THEN "none" ELSE replies[1].msgId,
        !.handed = IF p.handed THEN 1 ELSE 0,
        !.ret = p.ret, !.sched = p.spawn,
        !.active = ActiveWorkers(workers)]

\* _handle_read_request(topic, payload), delivered on the client's thread
\* while the session is open; prc is the result of client.publish
HandleReadRequest(req, redis_up, prc) ==
    /\ link \in {"up", "closing"}
    /\ \E replies \in {ReadReplies(store, redis_up, req)} :
       \E p \in {PublishReplies(Connection, replies, prc)} :
          /\ p.handed \/ prc = MQTT_ERR_SUCCESS
          /\ p.spawn => CanStart(workers)
          /\ SetConnection(p)
          /\ ev' = ObserveRequest("read_request", req, replies, p)
    /\ UNCHANGED restVars
    /\ UNCHANGED <<reconnect_enabled, current_reconnect_attempts,
                   last_disconnect_time, disconnect_count, ssl_enabled,
                   ssl_monitor, now, api, rateVars, wire, store, threads>>

\* _handle_write_request(topic, payload)
HandleWriteRequest(req, redis_up, prc) ==
    /\ link \in {"up", "closing"}
    /\ \E replies \in {WriteReplies(store, redis_up, req)} :
       \E p \in {PublishReplies(Connection, replies, prc)} :
          /\ p.handed \/ prc = MQTT_ERR_SUCCESS
          /\ p.spawn => CanStart(workers)
          /\ SetConnection(p)
          /\ ev' = [ObserveRequest("write_request", req, replies, p) EXCEPT
                      !.redis = redis_up,
                      !.before = store[RedisKey(req.source, req.device,
                                                req.data_type)].type]
    /\ store' = IF WriteRuns(req)
                THEN WriteRedisData(store, redis_up, req.source, req.device,
                                    req.data_type, req.key, req.value).store
                ELSE store
    /\ UNCHANGED restVars
    /\ UNCHANGED <<reconnect_enabled, current_reconnect_attempts,
                   last_disconnect_time, disconnect_count, ssl_enabled,
                   ssl_monitor, now, api, rateVars, wire, threads>>

\* _fetch_data_from_redis with _send_grouped_data: the number of messages a
\* forward cycle submits, one for each key that exists
ForwardCount(st, redis_up) ==
    IF redis_up
    THEN Cardinality({k \in StoreKeys : st[k].type # "none"})
    ELSE 0

RECURSIVE ForwardCycle(_, _, _)
\* n calls of _rate_limited_send in a row
ForwardCycle(fw, n, conn) ==
    IF n = 0 THEN fw
    ELSE TheOne({ForwardCycle(next, n - 1, conn) :
                 next \in {RateLimited(fw, conn)}})

\* DataForwarder._forward_data: the forwarder afterwards; monitor tells that a
\* system monitor message is due
ForwardData(fw, conn, st, redis_up, monitor) ==
    IF ~conn
    THEN fw
    ELSE ForwardCycle(fw, ForwardCount(st, redis_up)
                              + (IF monitor THEN 1 ELSE 0), conn)

RECURSIVE CallCycles(_, _, _, _, _, _, _, _)
\* the forward cycles among the handler's steps from the i-th on: a cycle
\* that follows the reply sees the connection as publish left it
CallCycles(fw, steps, i, before, after, st, redis_up, monitor) ==
    IF i > Len(steps) THEN fw
    ELSE IF steps[i] = "cycle"
    THEN CallCycles(ForwardData(fw, before, st, redis_up, monitor),
                    steps, i + 1, before, after, st, redis_up, FALSE)
    ELSE CallCycles(fw, steps, i + 1, after, after, st, redis_up, monitor)

\* _handle_call_data_request(topic, payload): the acknowledgment, then a
\* forward cycle
HandleCallDataRequest(req, redis_up, monitor, prc) ==
    /\ link \in {"up", "closing"}
    /\ \E replies \in {CallReplies(req)} :
       \E p \in {PublishReplies(Connection, replies, prc)} :
       \E fw \in {CallCycles(Forwarder, CallSteps(req), 1, is_connected,
                             p.is_connected, store, redis_up, monitor)} :
          /\ p.handed \/ prc = MQTT_ERR_SUCCESS
          /\ p.spawn => CanStart(workers)
          /\ fw.next <= MaxMsgs + 1
          /\ fw.clock <= MaxClock
          /\ SetConnection(p)
          /\ SetForwarder(fw)
          /\ ev' = [ObserveRequest("call_request", req, replies, p) EXCEPT
                      !.cnt = fw.next - next_id, !.redis = redis_up,
                      !.steps = CallSteps(req)]
    /\ UNCHANGED restVars
    /\ UNCHANGED <<reconnect_enabled, current_reconnect_attempts,
                   last_disconnect_time, disconnect_count, ssl_enabled,
                   ssl_monitor, now, api, store, threads>>

\* The handlers run once the operator's reconnect request has opened the
\* session, on the store the gateway finds.
InitReq ==
    /\ is_connected = FALSE
    /\ reconnect_enabled = TRUE        \* the default of __init__
    /\ current_reconnect_attempts = 0
    /\ last_disconnect_time = 0
    /\ disconnect_count = 0
    /\ ssl_enabled = FALSE
    /\ ssl_monitor = FALSE
    /\ workers = NoWorkers
    /\ link = "pending"
    /\ now = Epoch
    /\ api = "wait"
    /\ message_queue = <<>>
    /\ last_send_time = 0
    /\ clock = send_interval
    /\ next_id = 1
    /\ wire = <<>>
    /\ store \in InitStores
    /\ threads = NoThreads
    /\ message_handlers = <<>>
    /\ connection_callbacks = <<>>
    /\ disconnection_callbacks = <<>>
    /\ is_running = FALSE
    /\ forward_task = "none"
    /\ last_forward_time = 0
    /\ mqtt_failure_count = 0
    /\ lifespan = "serving"
    /\ ev = [NoEv EXCEPT !.op = "reload"]

\* the results of client.publish that a reply meets: it is sent, or the
\* client has lost the connection
ReplyPublishCodes == {MQTT_ERR_SUCCESS, 4}

NextReq ==
    \/ \E rc \in ConnackCodes, prc \in OnlinePublishCodes : OnConnect(rc, prc)
    \/ \E rc \in ReasonCodes : OnDisconnect(rc)
    \/ \E req \in ReadRequests, redis_up \in BOOLEAN, prc \in ReplyPublishCodes :
          HandleReadRequest(req, redis_up, prc)
    \/ \E req \in WriteRequests, redis_up \in BOOLEAN, prc \in ReplyPublishCodes :
          HandleWriteRequest(req, redis_up, prc)
    \/ \E req \in CallRequests, redis_up \in BOOLEAN, monitor \in BOOLEAN,
          prc \in ReplyPublishCodes :
          HandleCallDataRequest(req, redis_up, monitor, prc)

SpecReq == InitReq /\ [][NextReq]_vars

-----------------------------------------------------------------------------
(* MQTTClient._topic_match: a subscription pattern against a topic, both as
   the sequences of segments that split('/') gives *)

\* the segments of the patterns and of the topics that are tried
PatternSegments == {"a", "b", "+", "#"}
TopicSegments == {"a", "b"}

SegmentSeqs(alphabet) ==
    UNION {[1 .. n -> alphabet] : n \in 1 .. MaxSegments}

Patterns == SegmentSeqs(PatternSegments)
Topics == SegmentSeqs(TopicSegments)

\* '+' in pattern or '#' in pattern
HasWildcard(pattern) ==
    \E i \in 1 .. Len(pattern) : pattern[i] \in {"+", "#"}

RECURSIVE MatchParts(_, _, _)
\* the loop `for i, pattern_part in enumerate(pattern_parts)` from the i-th
\* part on (the first part is numbered 1 here), and the `return True` after it
MatchParts(pattern_parts, topic_parts, i) ==
    IF i > Len(pattern_parts) THEN TRUE
    ELSE IF i > Len(topic_parts) THEN FALSE
    ELSE IF pattern_parts[i] = "#" THEN TRUE
    ELSE IF pattern_parts[i] = "+"
    THEN MatchParts(pattern_parts, topic_parts, i + 1)
    ELSE IF pattern_parts[i] # topic_parts[i] THEN FALSE
    ELSE MatchParts(pattern_parts, topic_parts, i + 1)

\* a match that knows no wildcard
TopicMatchExact(pattern, topic) == pattern = topic

\* _topic_match(pattern, topic)
TopicMatch(pattern, topic) ==
    IF pattern = topic THEN TRUE
    ELSE IF HasWildcard(pattern)
    THEN IF /\ Len(pattern) > Len(topic)
            /\ \A i \in 1 .. Len(pattern) : pattern[i] # "#"
         THEN FALSE
         ELSE MatchParts(pattern, topic, 1)
    ELSE FALSE

\* _on_message asks whether the subscription pattern matches the topic of the
\* message delivered
TopicMatchCall ==
    /\ ev.op = "message"
    /\ ev' = [ev EXCEPT !.op = "topic_match",
                        !.ret = TopicMatch(ev.pattern, ev.topic)]
    /\ UNCHANGED restVars
    /\ UNCHANGED <<connVars, rateVars, wire, store, threads>>

\* a message on some topic is delivered while some pattern is subscribed
InitTopic ==
    /\ is_connected = TRUE
    /\ reconnect_enabled = TRUE
    /\ current_reconnect_attempts = 0
    /\ last_disconnect_time = 0
    /\ disconnect_count = 0
    /\ ssl_enabled = FALSE
    /\ ssl_monitor = FALSE
    /\ workers = NoWorkers
    /\ link = "up"
    /\ now = Epoch
    /\ api = "idle"
    /\ message_queue = <<>>
    /\ last_send_time = 0
    /\ clock = send_interval
    /\ next_id = 1
    /\ wire = <<>>
    /\ store = EmptyStore
    /\ threads = NoThreads
    /\ message_handlers = <<>>
    /\ connection_callbacks = <<>>
    /\ disconnection_callbacks = <<>>
    /\ is_running = FALSE
    /\ forward_task = "none"
    /\ last_forward_time = 0
    /\ mqtt_failure_count = 0
    /\ lifespan = "serving"
    /\ \E pattern \in Patterns, topic \in Topics :
          ev = [NoEv EXCEPT !.op = "message",
                  !.pattern = pattern, !.topic = topic]

NextTopic == TopicMatchCall

SpecTopic == InitTopic /\ [][NextTopic]_vars

-----------------------------------------------------------------------------
(* MQTTClient._on_message: the router of inbound messages.  message_handlers
   is a dict, kept here as the sequence of its items in insertion order *)

MaxHandlers == 2       \* patterns registered at once

\* the patterns that get registered and the handlers registered for them
RouterPatterns ==
    {<<"a">>, <<"+">>, <<"a", "b">>, <<"a", "+">>, <<"a", "#">>}
Handlers == {"h1", "h2"}

\* what a handler call does: it returns, or it raises an Exception
HandlerOutcomes == {"returns", "raises"}

\* the place of the pattern among the dict's keys, 0 if it is not a key
KeyIndex(handlers, pattern) ==
    IF \E i \in 1 .. Len(handlers) : handlers[i].pattern = pattern
    THEN CHOOSE i \in 1 .. Len(handlers) : handlers[i].pattern = pattern
    ELSE 0

\* self.message_handlers[topic] = handler: a new key goes to the end, a key
\* that is there keeps its place and gets the new handler
SetHandler(handlers, pattern, handler) ==
    IF KeyIndex(handlers, pattern) = 0
    THEN Append(handlers, [pattern |-> pattern, handler |-> handler])
    ELSE [handlers EXCEPT ![KeyIndex(handlers, pattern)].handler = handler]

\* add_message_handler(topic, handler)
AddMessageHandler(pattern, handler) ==
    /\ KeyIndex(message_handlers, pattern) = 0
          => Len(message_handlers) < MaxHandlers
    /\ message_handlers' = SetHandler(message_handlers, pattern, handler)
    /\ ev' = [Observe("add_message_handler") EXCEPT !.pattern = pattern]
    /\ UNCHANGED <<connVars, rateVars, wire, store, threads,
                   connection_callbacks, disconnection_callbacks, loopVars>>

\* the for loop of _on_message with its break: the items whose handler is
\* called
Dispatch(handlers, topic) ==
    LET matching == SelectSeq(handlers, LAMBDA h : TopicMatch(h.pattern, topic))
    IN  IF matching = <<>> THEN <<>> ELSE <<Head(matching)>>

\* _on_message(client, userdata, msg): decodes tells whether the payload is
\* UTF-8, outcome what the handler called does
OnMessage(topic, decodes, outcome) ==
    LET called == IF decodes THEN Dispatch(message_handlers, topic) ELSE <<>>
    IN  /\ ev' = [Observe("on_message") EXCEPT
                    !.topic = topic,
                    !.ret = decodes,
                    !.calls = [i \in 1 .. Len(called) |-> called[i].handler],
                    !.msg = IF called = <<>> THEN "none" ELSE outcome,
                    !.level = IF ~decodes THEN "error"
                              ELSE IF called = <<>> THEN "debug"
                              ELSE IF outcome = "raises" THEN "error"
                              ELSE "none",
                    !.escaped = FALSE]
        /\ UNCHANGED restVars
        /\ UNCHANGED <<connVars, rateVars, wire, store, threads>>

InitRouter ==
    /\ is_connected = TRUE
    /\ reconnect_enabled = TRUE
    /\ current_reconnect_attempts = 0
    /\ last_disconnect_time = 0
    /\ disconnect_count = 0
    /\ ssl_enabled = FALSE
    /\ ssl_monitor = FALSE
    /\ workers = NoWorkers
    /\ link = "up"
    /\ now = Epoch
    /\ api = "idle"
    /\ message_queue = <<>>
    /\ last_send_time = 0
    /\ clock = send_interval
    /\ next_id = 1
    /\ wire = <<>>
    /\ store = EmptyStore
    /\ threads = NoThreads
    /\ message_handlers = <<>>
    /\ connection_callbacks = <<>>
    /\ disconnection_callbacks = <<>>
    /\ is_running = FALSE
    /\ forward_task = "none"
    /\ last_forward_time = 0
    /\ mqtt_failure_count = 0
    /\ lifespan = "serving"
    /\ ev = NoEv

NextRouter ==
    \/ \E pattern \in RouterPatterns, handler \in Handlers :
          AddMessageHandler(pattern, handler)
    \/ \E topic \in Topics, decodes \in BOOLEAN, outcome \in HandlerOutcomes :
          OnMessage(topic, decodes, outcome)

SpecRouter == InitRouter /\ [][NextRouter]_vars

-----------------------------------------------------------------------------
(* DataForwarder: one forward cycle, from the store to the messages it
   submits.  Here a key is the sequence of the parts key.split(':') gives, a
   text the sequence of its characters, and the store maps a key to an
   entry of some type: the text of a string, the fields of a hash as a
   sequence of [field, text], the members of a list or set as a sequence of
   texts. *)

MaxRecords == 3        \* keys of the group comsrv:1:T in the store
MaxBatch == 2          \* data_report.batch_size
MaxCycles == 2         \* cycles of the forward loop

DigitChars == <<"0", "1", "2", "3", "4", "5", "6", "7", "8", "9">>

IsDigit(c) == \E d \in 1 .. 10 : DigitChars[d] = c

DigitValue(c) == (CHOOSE d \in 1 .. 10 : DigitChars[d] = c) - 1

RECURSIVE Pow10(_)
Pow10(n) == IF n = 0 THEN 1 ELSE 10 * Pow10(n - 1)

RECURSIVE DigitsValue(_)
\* the number a sequence of digits writes
DigitsValue(digits) ==
    IF digits = <<>> THEN 0
    ELSE 10 * DigitsValue(SubSeq(digits, 1, Len(digits) - 1))
            + DigitValue(digits[Len(digits)])

\* the place of the decimal point in the text, 0 if it has none
PointAt(text) ==
    IF \E i \in 1 .. Len(text) : text[i] = "."
    THEN CHOOSE i \in 1 .. Len(text) : text[i] = "."
    ELSE 0

\* the text is a decimal numeral: digits, or digits '.' digits
IsNumeral(text) ==
    /\ text # <<>>
    /\ \A i \in 1 .. Len(text) : IsDigit(text[i]) \/ i = PointAt(text)
    /\ PointAt(text) \notin {1, Len(text)}

\* the number mant / 10^frac a decimal numeral writes
Float(text) ==
    LET p == PointAt(text)
        digits == IF p = 0 THEN text
                  ELSE SubSeq(text, 1, p - 1) \o SubSeq(text, p + 1, Len(text))
    IN  [mant |-> DigitsValue(digits),
         frac |-> IF p = 0 THEN 0 ELSE Len(text) - p]

RECURSIVE Reduced(_)
\* the same number with no trailing zero in its fraction
Reduced(f) ==
    IF f.frac > 0 /\ f.mant % 10 = 0
    THEN Reduced([mant |-> f.mant \div 10, frac |-> f.frac - 1])
    ELSE f

\* float_value.is_integer() of a finite float
IsInteger(f) == Reduced(f).frac <= 0

\* the values of a message: an int or a float is the number mant / 10^frac
\* (frac < 0 for a number written with an exponent), nan and inf are floats
\* that are no number, a str is its text
IntValue(n) == [kind |-> "int", mant |-> n, frac |-> 0, text |-> <<>>]
FloatValue(f) ==
    [kind |-> "float", mant |-> Reduced(f).mant, frac |-> Reduced(f).frac,
     text |-> <<>>]
TextValue(text) == [kind |-> "str", mant |-> 0, frac |-> 0, text |-> text]
NotANumber == [kind |-> "float", mant |-> 0, frac |-> 0, text |-> <<"n", "a", "n">>]
Infinite(sign) == [kind |-> "float", mant |-> sign, frac |-> 0, text |-> <<"i", "n", "f">>]

\* Python's float(value) on a text of digits and the characters . - e n a:
\* an optional sign, then nan, or a decimal with at least one digit and at
\* most one point, optionally followed by e and a signed run of digits
Unsigned(text) == IF text # <<>> /\ text[1] = "-" THEN Tail(text) ELSE text
Sign(text) == IF text # <<>> /\ text[1] = "-" THEN -1 ELSE 1

ExpAt(text) ==
    IF \E i \in 1 .. Len(text) : text[i] = "e"
    THEN CHOOSE i \in 1 .. Len(text) :
            text[i] = "e" /\ \A j \in 1 .. i - 1 : text[j] # "e"
    ELSE 0

Significand(text) ==
    IF ExpAt(text) = 0 THEN text ELSE SubSeq(text, 1, ExpAt(text) - 1)

Exponent(text) ==
    IF ExpAt(text) = 0 THEN <<"0">>
    ELSE SubSeq(text, ExpAt(text) + 1, Len(text))

IsDecimal(text) ==
    /\ \E i \in 1 .. Len(text) : IsDigit(text[i])
    /\ \A i \in 1 .. Len(text) : IsDigit(text[i]) \/ i = PointAt(text)

IsDigits(text) ==
    text # <<>> /\ \A i \in 1 .. Len(text) : IsDigit(text[i])

IsNan(text) == Unsigned(text) = <<"n", "a", "n">>

\* float(value) does not raise ValueError
FloatAccepts(text) ==
    \/ IsNan(text)
    \/ /\ IsDecimal(Significand(Unsigned(text)))
       /\ IsDigits(Unsigned(Exponent(Unsigned(text))))

\* the number an accepted text other than nan writes
Written(text) ==
    LET f == Float(Significand(Unsigned(text)))
        e == Exponent(Unsigned(text))
    IN  [mant |-> Sign(text) * f.mant,
         frac |-> f.frac - Sign(e) * DigitsValue(Unsigned(e))]

RECURSIVE NumDigits(_)
NumDigits(n) == IF n < 10 THEN 1 ELSE 1 + NumDigits(n \div 10)

\* the place of the number's first digit: 10^(Place - 1) <= |number| < 10^Place
Place(f) == NumDigits(f.mant * (IF f.mant < 0 THEN -1 ELSE 1)) - f.frac

\* a double holds no number from 10^309 on and none below 10^-324; no text
\* of these characters up to MaxText + 1 long writes a number in the last
\* decade below either limit
Overflows(f) == f.mant # 0 /\ Place(f) > 309
Underflows(f) == f.mant # 0 /\ Place(f) < -323

RECURSIVE Stripped(_)
\* the same number with no trailing zero in its significand
Stripped(f) ==
    IF f.mant # 0 /\ f.mant % 10 = 0
    THEN Stripped([mant |-> f.mant \div 10, frac |-> f.frac - 1])
    ELSE f

\* int(float_value) of an integral float: written out below 10^9, and as
\* significand and power of ten from there on, where it is the integer the
\* double holds
IntOf(f) ==
    IF f.mant = 0 THEN IntValue(0)
    ELSE IF Place(f) <= 9
    THEN IntValue(Reduced(f).mant * Pow10(0 - Reduced(f).frac))
    ELSE [IntValue(Stripped(f).mant) EXCEPT !.frac = Stripped(f).frac]

\* the int or float that `float_value = float(value)` followed by
\* `int(float_value) if float_value.is_integer() else float_value` gives
IntOrFloat(text) ==
    IF IsNan(text) THEN NotANumber
    ELSE IF Overflows(Written(text)) THEN Infinite(Sign(text))
    ELSE IF Underflows(Written(text)) THEN IntValue(0)
    ELSE IF IsInteger(Written(text)) THEN IntOf(Written(text))
    ELSE FloatValue(Written(text))

\* _convert_hash_values(hash_data): a text that float() accepts becomes an
\* int if the float is integral and a float otherwise; other texts stay
ConvertHashValues(hash_data) ==
    [i \in 1 .. Len(hash_data) |->
        [field |-> hash_data[i].field,
         value |-> IF FloatAccepts(hash_data[i].text)
                   THEN IntOrFloat(hash_data[i].text)
                   ELSE TextValue(hash_data[i].text)]]

\* PointReader._get_redis_data on a hash: {key: value} of the field read
HashFieldValue(text) ==
    IF FloatAccepts(text) THEN IntOrFloat(text) ELSE TextValue(text)

\* json.loads(value) of a string key, the text itself on JSONDecodeError: a
\* numeral without a point is an int, one with a point a float
JsonLoads(text) ==
    IF IsNumeral(text) /\ (text[1] # "0" \/ Len(text) = 1 \/ PointAt(text) = 2)
    THEN IF PointAt(text) = 0 THEN IntValue(Float(text).mant)
         ELSE FloatValue(Float(text))
    ELSE TextValue(text)

\* the channel of a key that has none
Unknown == <<"unknown">>

\* _parse_key_format(key); the channel is a character string
ParseKeyFormat(key) ==
    IF Len(key) >= 3
    THEN [service |-> key[1], channel |-> key[2], data_type |-> key[3]]
    ELSE IF Len(key) = 2
    THEN [service |-> key[1], channel |-> key[2], data_type |-> "unknown"]
    ELSE [service |-> key[1], channel |-> Unknown, data_type |-> "unknown"]

\* group_key = f"{service}:{channel}:{data_type}"
GroupKey(key) ==
    <<ParseKeyFormat(key).service, ParseKeyFormat(key).channel,
      ParseKeyFormat(key).data_type>>

\* the keys of the store, in the order redis_client.keys gives them: the
\* points of the group comsrv:1:T and, among them, the keys of two channels
PointKey(i) == <<"comsrv", <<"1">>, "T", DigitChars[i + 1]>>
ChannelKey(channel) == <<"comsrv", channel, "T">>
KeyOrder ==
    <<PointKey(1), ChannelKey(<<"2">>), ChannelKey(<<"1">>)>>
        \o [i \in 1 .. MaxRecords - 1 |-> PointKey(i + 1)]
ForwardKeys == {KeyOrder[i] : i \in 1 .. Len(KeyOrder)}

\* entries of the store
NoEntry == [type |-> "none", hash |-> <<>>, text |-> <<>>, members |-> <<>>]
HashOf(text) ==
    [NoEntry EXCEPT !.type = "hash", !.hash = <<[field |-> "v", text |-> text]>>]
StringOf(text) == [NoEntry EXCEPT !.type = "string", !.text = text]
ListOf(texts) == [NoEntry EXCEPT !.type = "list", !.members = texts]
SetOf(texts) == [NoEntry EXCEPT !.type = "set", !.members = texts]
SortedSet == [NoEntry EXCEPT !.type = "zset"]

\* the entry has content of the type it says: `if value`, `if hash_data`, ...
HasContent(entry) ==
    \/ entry.type = "string" /\ entry.text # <<>>
    \/ entry.type = "hash" /\ entry.hash # <<>>
    \/ entry.type \in {"list", "set"} /\ entry.members # <<>>

\* redis_source.subscribe_patterns: a pattern is the parts before its ':*'
SubscribePatterns ==
    {<< <<"comsrv">> >>, << <<"comsrv", <<"1">>>>, <<"comsrv", <<"2">>>> >>}

\* fnmatch of a key against parts:* , as redis_client.keys and _pattern_match
\* do it
GlobMatches(pattern, key) ==
    /\ Len(key) > Len(pattern)
    /\ \A i \in 1 .. Len(pattern) : key[i] = pattern[i]

\* redis_client.keys(pattern)
Keys(st, pattern) ==
    SelectSeq(KeyOrder,
              LAMBDA k : st[k].type # "none" /\ GlobMatches(pattern, k))

\* the item one key adds to all_data, if any: a string that is not empty with
\* its JSON value, a hash, list or set that is not empty with its content;
\* bad_key is the key whose read raises
Materialize(st, key, bad_key) ==
    IF key = bad_key \/ ~HasContent(st[key])
    THEN <<>>
    ELSE <<[key |-> key, type |-> st[key].type, hash |-> st[key].hash,
            json |-> JsonLoads(st[key].text), members |-> st[key].members]>>

\* the calls of the store one key takes: type(key) and the read of its value
KeyCalls(st, key, bad_key) ==
    IF key = bad_key \/ st[key].type = "zset" THEN 1 ELSE 2

\* a loop over the keys that the failing key ends
FetchKeysUntilFailure(st, keys, i, bad_key) ==
    [data |-> Concat([j \in 1 .. Len(keys) |->
                        IF \E h \in 1 .. j : keys[h] = bad_key THEN <<>>
                        ELSE Materialize(st, keys[j], bad_key)]),
     calls |-> Len(keys)]

RECURSIVE FetchKeys(_, _, _, _)
\* the loop `for key in keys` from the i-th key on
FetchKeys(st, keys, i, bad_key) ==
    IF i > Len(keys) THEN [data |-> <<>>, calls |-> 0]
    ELSE TheOne({[data |-> Materialize(st, keys[i], bad_key) \o rest.data,
                  calls |-> KeyCalls(st, keys[i], bad_key) + rest.calls] :
                 rest \in {FetchKeys(st, keys, i + 1, bad_key)}})

RECURSIVE FetchPatterns(_, _, _, _, _)
\* the loop `for pattern in patterns` from the i-th pattern on; bad_pattern
\* is the pattern whose keys() raises
FetchPatterns(st, patterns, i, bad_pattern, bad_key) ==
    IF i > Len(patterns) THEN [data |-> <<>>, calls |-> 0]
    ELSE TheOne({[data |-> this.data \o rest.data,
                  calls |-> 1 + this.calls + rest.calls] :
                 rest \in {FetchPatterns(st, patterns, i + 1, bad_pattern,
                                         bad_key)},
                 this \in {IF patterns[i] = bad_pattern
                           THEN [data |-> <<>>, calls |-> 0]
                           ELSE FetchKeys(st, Keys(st, patterns[i]), 1,
                                          bad_key)}})

\* _apply_filters(data) with redis_source.filters.exclude_patterns
ApplyFilters(data, exclude_patterns) ==
    SelectSeq(data,
              LAMBDA item : \A i \in 1 .. Len(exclude_patterns) :
                                ~GlobMatches(exclude_patterns[i], item.key))

\* _fetch_data_from_redis(): the filtered items (None is the empty list, the
\* caller tests `if data`) and the number of calls of the store
FetchDataFromRedis(st, redis_up, patterns, excluded, bad_pattern, bad_key) ==
    IF ~redis_up \/ patterns = <<>>
    THEN [data |-> <<>>, calls |-> 0]
    ELSE TheOne({[data |-> ApplyFilters(f.data, excluded),
                  calls |-> f.calls] :
                 f \in {FetchPatterns(st, patterns, 1, bad_pattern,
                                      bad_key)}})

RECURSIVE GroupOrder(_, _)
\* the keys of grouped_data in insertion order: the group keys of the items
\* from the i-th on, each at its first appearance
GroupOrder(data, i) ==
    IF i > Len(data) THEN <<>>
    ELSE IF \E j \in 1 .. i - 1 : GroupKey(data[j].key) = GroupKey(data[i].key)
    THEN GroupOrder(data, i + 1)
    ELSE <<GroupKey(data[i].key)>> \o GroupOrder(data, i + 1)

\* grouped_data[group_key]
GroupItems(data, group_key) ==
    SelectSeq(data, LAMBDA item : GroupKey(item.key) = group_key)

\* a split that emits the whole group at once
BatchesUnsplit(group_items, batch_size) == <<group_items>>

\* the batches of one group: group_items[i:i + batch_size] for i in
\* range(0, len(group_items), batch_size) when the group is larger than
\* batch_size, the whole group otherwise
Batches(group_items, batch_size) ==
    IF Len(group_items) > batch_size
    THEN [k \in 1 .. (Len(group_items) + batch_size - 1) \div batch_size |->
            SubSeq(group_items, (k - 1) * batch_size + 1,
                   Min(k * batch_size, Len(group_items)))]
    ELSE <<group_items>>

RECURSIVE GroupedBatches(_, _, _, _)
\* the calls of _send_property_data that _send_grouped_data makes, in order:
\* [group, items] for every batch of every group, from the i-th group on
GroupedBatches(data, groups, i, batch_size) ==
    IF i > Len(groups) THEN <<>>
    ELSE TheOne({[k \in 1 .. Len(bs) |->
                     [group |-> groups[i], items |-> bs[k]]] :
                 bs \in {Batches(GroupItems(data, groups[i]), batch_size)}})
            \o GroupedBatches(data, groups, i + 1, batch_size)

\* channel.replace(' ', '_')
DeviceOf(channel) ==
    [i \in DOMAIN channel |-> IF channel[i] = " " THEN "_" ELSE channel[i]]

\* the entry of the property list one item gives
PointData(item) ==
    [source |-> ParseKeyFormat(item.key).service,
     device |-> DeviceOf(ParseKeyFormat(item.key).channel),
     data_type |-> ParseKeyFormat(item.key).data_type,
     value |-> [type |-> item.type, hash |-> ConvertHashValues(item.hash),
                json |-> item.json, members |-> item.members]]

\* the property list _send_property_data builds for a batch
PropertyData(items) == [i \in 1 .. Len(items) |-> PointData(items[i])]

Faults(patterns) ==
    {NoFault}
    \cup {PatternFault(patterns[i]) : i \in 1 .. Len(patterns)}
    \cup {KeyFault(k) : k \in ForwardKeys}
    \cup {BatchFault(j) : j \in 1 .. MaxBatch}

\* redis_source.filters.exclude_patterns
ExcludePatterns == {<<>>, << <<"comsrv", <<"2">>>> >>}

\* the message _send_property_data submits for a batch
PropertyMessage(batch) ==
    [kind |-> "property", group |-> batch.group,
     property |-> PropertyData(batch.items)]

\* the message _send_system_monitor_data submits
MonitorMessage == [kind |-> "monitor", group |-> <<>>, property |-> <<>>]

\* the j-th call of _send_property_data raises and submits nothing
SubmittedBatches(batches, fault) ==
    IF fault.batch \in 1 .. Len(batches)
    THEN SubSeq(batches, 1, fault.batch - 1)
            \o SubSeq(batches, fault.batch + 1, Len(batches))
    ELSE batches

\* the messages of the batches whose send goes through
PropertyMessages(sent) == [j \in 1 .. Len(sent) |-> PropertyMessage(sent[j])]

\* a cycle that does its work whatever the connection
CycleRuns(conn) == TRUE

\* `if not mqtt_client.is_connected: return` at the head of _forward_data
CycleRunsConnected(conn) == conn

\* _forward_data(): what one cycle fetches, the batches it forms and the
\* messages it submits to _rate_limited_send, in order
ForwardRun(conn, st, redis_up, patterns, excluded, batch_size, fault, mon) ==
    IF ~CycleRunsConnected(conn)
    THEN [data |-> <<>>, calls |-> 0, batches |-> <<>>, msgs |-> <<>>]
    ELSE TheOne(
           {[data |-> f.data, calls |-> f.calls, batches |-> batches,
             msgs |-> PropertyMessages(SubmittedBatches(batches, fault))
                         \o (IF mon THEN <<MonitorMessage>> ELSE <<>>)] :
            f \in {FetchDataFromRedis(st, redis_up, patterns, excluded,
                                      fault.pattern, fault.key)},
            batches \in {TheOne({GroupedBatches(d, GroupOrder(d, 1), 1,
                                                batch_size) :
                                 d \in {FetchDataFromRedis(
                                           st, redis_up, patterns, excluded,
                                           fault.pattern, fault.key).data}})}})

\* what a cycle meets: the store up with one fault at most and nothing
\* excluded, the store up with the keys of channel 2 excluded, the store down;
\* a read fails only for a key that is there to be read
CycleEnvs(st, patterns) ==
    {[redis_up |-> TRUE, exclude |-> <<>>, fault |-> f] :
        f \in {g \in Faults(patterns) :
                 g.kind = "key" => st[g.key].type # "none"}}
    \cup {[redis_up |-> up, exclude |-> ex, fault |-> NoFault] :
            up \in BOOLEAN, ex \in ExcludePatterns}

\* what a cycle reads of its surroundings: the subscribe patterns, the batch
\* size, whether the system metrics are due, the store; a cycle that is
\* skipped reads none of the configuration
CycleInputs(conn, st) ==
    IF conn
    THEN UNION {{[patterns |-> patterns, batch_size |-> batch_size,
                  monitor |-> monitor, env |-> env] :
                   batch_size \in 1 .. MaxBatch, monitor \in BOOLEAN,
                   env \in CycleEnvs(st, patterns)} :
                patterns \in SubscribePatterns}
    ELSE {[patterns |-> << <<"comsrv">> >>, batch_size |-> 1,
           monitor |-> monitor,
           env |-> [redis_up |-> up, exclude |-> <<>>, fault |-> NoFault]] :
            monitor \in BOOLEAN, up \in BOOLEAN}

\* _reset_mqtt_failure_count()
ResetMqttFailureCount(count) == 0

\* data_report.interval, in ticks
forward_interval == 5 * TicksPerSecond

\* one turn of _forward_loop when the interval has elapsed: _forward_data()
\* and the note of its time
ForwardDataRun ==
    /\ is_running /\ forward_task = "running"
    /\ clock - last_forward_time >= forward_interval
    /\ last_forward_time' = clock
    /\ \E inp \in CycleInputs(is_connected, store) :
       \E run \in {ForwardRun(is_connected, store, inp.env.redis_up,
                              inp.patterns, inp.env.exclude, inp.batch_size,
                              inp.env.fault, inp.monitor)} :
       \E fw \in {ForwardCycle(Forwarder, Len(run.msgs), is_connected)} :
          /\ SetForwarder(fw)
          /\ ev' = [Observe("forward_data") EXCEPT
                      !.conn = is_connected, !.redis = inp.env.redis_up,
                      !.batch_size = inp.batch_size, !.fault = inp.env.fault,
                      !.patterns = inp.patterns, !.exclude = inp.env.exclude,
                      !.data = run.data, !.reads = run.calls,
                      !.batches = run.batches, !.msgs = run.msgs,
                      !.handed = Len(fw.wire) - Len(wire),
                      !.queued = fw.queue # <<>>,
                      !.before = ev.before,
                      !.sched = inp.monitor]
          /\ mqtt_failure_count' = IF run.msgs = <<>> THEN mqtt_failure_count
                                   ELSE ResetMqttFailureCount(mqtt_failure_count)
    /\ UNCHANGED <<connVars, store, threads, regVars, is_running,
                   forward_task, lifespan>>

\* the turns of _forward_loop that only sleep, until the interval has elapsed
ForwardLoopSleep ==
    /\ is_running /\ forward_task = "running"
    /\ clock - last_forward_time < forward_interval
    /\ clock < MaxCycles * forward_interval
    /\ clock' = last_forward_time + forward_interval
    /\ ev' = [Observe("forward_sleep") EXCEPT
                !.before = IF ev.fault = NoFault THEN "none" ELSE "failed"]
    /\ UNCHANGED restVars
    /\ UNCHANGED <<connVars, message_queue, last_send_time, next_id, wire,
                   store, threads>>

\* DataForwarder._send_message: the arguments client.publish is called with;
\* the call names the QoS alone, and the client's retain flag defaults to off
SendMessageArgs(qos) == [qos |-> qos, retain |-> FALSE]

\* the time _send_device_offline spends in loop_write and sleep after the send
offline_grace == (20 * TicksPerSecond) \div 100 + TicksPerSecond \div 2

\* a stop that sends nothing
SendDeviceOfflineNothing(fw, conn) == fw

\* DataForwarder._send_device_offline: one call of _rate_limited_send
SendDeviceOffline(fw, conn) == RateLimited(fw, conn)

\* forward_task.cancel(), if there is a task
CancelTask(task) == IF task = "none" THEN "none" ELSE "cancelled"

\* DataForwarder.stop, the first step of the lifespan's shutdown
Stop ==
    /\ lifespan = "serving"
    /\ lifespan' = "stopped"
    /\ IF is_running
       THEN \E fw \in {SendDeviceOffline(Forwarder, is_connected)} :
               /\ SetForwarder([fw EXCEPT !.clock = @ + offline_grace])
               /\ is_running' = FALSE
               /\ forward_task' = CancelTask(forward_task)
               /\ ev' = [Observe("stop") EXCEPT
                           !.rc = next_id, !.conn = is_connected,
                           !.en = TRUE, !.before = link,
                           !.handed = Len(fw.wire) - Len(wire),
                           !.queued = InQueue(fw.queue, next_id),
                           !.status = "offline",
                           !.qos = SendMessageArgs(1).qos,
                           !.retain = SendMessageArgs(1).retain]
       ELSE /\ ev' = Observe("stop")
            /\ UNCHANGED <<rateVars, wire, is_running, forward_task>>
    /\ UNCHANGED <<connVars, store, threads, regVars, last_forward_time,
                   mqtt_failure_count>>

\* MQTTClient.disconnect, the lifespan's step after the forwarder's stop
Disconnect ==
    /\ lifespan = "stopped"
    /\ lifespan' = "closed"
    /\ IF is_connected
       THEN /\ is_connected' = FALSE
            /\ link' = "down"
       ELSE UNCHANGED <<is_connected, link>>
    /\ ev' = [Observe("disconnect") EXCEPT
                !.conn = is_connected, !.before = ev.op,
                !.handed = ev.handed, !.rc = ev.rc]
    /\ UNCHANGED <<reconnect_enabled, current_reconnect_attempts,
                   last_disconnect_time, disconnect_count, ssl_enabled,
                   ssl_monitor, workers, now, api, rateVars, wire, store,
                   threads, regVars, is_running, forward_task,
                   last_forward_time, mqtt_failure_count>>

\* the stores the cycle is run on: the first n points of the group
\* comsrv:1:T, and the keys of the channels 1 and 2 with a hash, a string, a
\* list, a set, a sorted set, or not there
PointEntry == HashOf(<<"2", "3", ".", "5">>)
ChannelEntries ==
    {NoEntry, HashOf(<<"2", "4">>), HashOf(<<"2", "4", ".", "0">>),
     HashOf(<<"x">>), StringOf(<<"2", "4", ".", "0">>), StringOf(<<>>),
     ListOf(<< <<"x">> >>), SetOf(<< <<"x">> >>), SortedSet}

ForwardStore(n, e1, e2) ==
    [k \in ForwardKeys |->
        IF k = ChannelKey(<<"1">>) THEN e1
        ELSE IF k = ChannelKey(<<"2">>) THEN e2
        ELSE IF \E i \in 1 .. n : k = PointKey(i) THEN PointEntry
        ELSE NoEntry]

ForwardStores ==
    {ForwardStore(0, e1, e2) :
        e1 \in {NoEntry, PointEntry}, e2 \in ChannelEntries}
    \cup {ForwardStore(n, NoEntry, e2) :
            n \in 1 .. MaxRecords, e2 \in {NoEntry, HashOf(<<"2", "4">>)}}

\* the forwarder after start(), before its first cycle, the session up or down
InitForward ==
    /\ is_connected \in BOOLEAN
    /\ reconnect_enabled = TRUE
    /\ current_reconnect_attempts = 0
    /\ last_disconnect_time = 0
    /\ disconnect_count = 0
    /\ ssl_enabled = FALSE
    /\ ssl_monitor = FALSE
    /\ workers = NoWorkers
    /\ link = IF is_connected THEN "up" ELSE "down"
    /\ now = Epoch
    /\ api = "idle"
    /\ message_queue = <<>>
    /\ last_send_time = 0
    /\ clock = forward_interval
    /\ next_id = 1
    /\ wire = <<>>
    /\ store \in ForwardStores
    /\ threads = NoThreads
    /\ message_handlers = <<>>
    /\ connection_callbacks = <<>>
    /\ disconnection_callbacks = <<>>
    /\ is_running = TRUE
    /\ forward_task = "running"
    /\ last_forward_time = 0
    /\ mqtt_failure_count = 0
    /\ lifespan = "serving"
    /\ ev = NoEv

NextForward == ForwardLoopSleep \/ ForwardDataRun \/ Stop \/ Disconnect

SpecForward == InitForward /\ [][NextForward]_vars

-----------------------------------------------------------------------------
(* The connection manager's life cycle: callbacks and handlers are registered,
   the management API reloads, reconnects and closes, the broker acknowledges
   or refuses, messages are published *)

MaxCallbacks == 2

\* the callbacks registered: two functions and a coroutine function
Callbacks ==
    {[id |-> "c1", coroutine |-> FALSE], [id |-> "c2", coroutine |-> FALSE],
     [id |-> "c3", coroutine |-> TRUE]}

\* add_connection_callback(callback)
AddConnectionCallback(callback) ==
    /\ Len(connection_callbacks) < MaxCallbacks
    /\ connection_callbacks' = Append(connection_callbacks, callback)
    /\ ev' = Observe("add_connection_callback")
    /\ UNCHANGED <<connVars, rateVars, wire, store, threads, message_handlers,
                   disconnection_callbacks, loopVars>>

\* force_reconnect up to the wait in connect(): disconnect(), loop_stop,
\* reset_reconnect_counter, client.connect on the client there is
ForceReconnect(raised) ==
    /\ api = "idle"
    /\ is_connected' = FALSE
    /\ current_reconnect_attempts' = 0
    /\ link' = IF raised THEN "down" ELSE "pending"
    /\ api' = IF raised THEN "idle" ELSE "wait"
    /\ ev' = [Observe("force_reconnect") EXCEPT
                !.conn = is_connected,
                !.steps = (IF is_connected THEN <<"disconnect">> ELSE <<>>)
                            \o <<"loop_stop">> \o ConnectSteps(TRUE, raised)]
    /\ UNCHANGED restVars
    /\ UNCHANGED <<reconnect_enabled, last_disconnect_time, disconnect_count,
                   ssl_enabled, ssl_monitor, workers, now, rateVars, wire,
                   store, threads>>

InitLife ==
    /\ is_connected = FALSE
    /\ reconnect_enabled \in ConfigReconnect
    /\ current_reconnect_attempts = 0
    /\ last_disconnect_time = 0
    /\ disconnect_count = 0
    /\ ssl_enabled \in BOOLEAN
    /\ ssl_monitor = FALSE
    /\ workers = NoWorkers
    /\ link = "down"
    /\ now = Epoch
    /\ api = "idle"
    /\ message_queue = <<>>
    /\ last_send_time = 0
    /\ clock = send_interval
    /\ next_id = 1
    /\ wire = <<>>
    /\ store = EmptyStore
    /\ threads = NoThreads
    /\ message_handlers = <<>>
    /\ connection_callbacks = <<>>
    /\ disconnection_callbacks = <<>>
    /\ is_running = FALSE
    /\ forward_task = "none"
    /\ last_forward_time = 0
    /\ mqtt_failure_count = 0
    /\ lifespan = "serving"
    /\ ev = NoEv

NextLife ==
    \/ \E callback \in Callbacks : AddConnectionCallback(callback)
    \/ AddMessageHandler(<<"a">>, "h1")
    \/ \E c \in ConfigReconnect, r \in BOOLEAN, b \in BOOLEAN :
           ReloadConfigAndReconnect(c, FALSE, r, b)
    \/ \E r \in BOOLEAN : ForceReconnect(r)
    \/ ReloadReturn
    \/ \E rc \in ConnackCodes, prc \in OnlinePublishCodes : OnConnect(rc, prc)
    \/ \E prc \in PublishCodes : Publish(prc)
    \/ CloseConnection

SpecLife == InitLife /\ [][NextLife]_vars

-----------------------------------------------------------------------------
(* MQTTClient: the disconnect callback and the callbacks registered for it.
   Sessions are opened, acknowledged and lost; a publish that fails with a
   connection error disconnects the client while the network loop runs, and
   the loop then reports the clean disconnect with reason code 0. *)

\* add_disconnection_callback(callback)
AddDisconnectionCallback(callback) ==
    /\ Len(disconnection_callbacks) < MaxCallbacks
    /\ disconnection_callbacks' = Append(disconnection_callbacks, callback)
    /\ ev' = Observe("add_disconnection_callback")
    /\ UNCHANGED <<connVars, rateVars, wire, store, threads, message_handlers,
                   connection_callbacks, loopVars>>

NextClean ==
    \/ \E callback \in Callbacks : AddDisconnectionCallback(callback)
    \/ \E r \in BOOLEAN : ForceReconnect(r)
    \/ ReloadReturn
    \/ \E rc \in ConnackCodes, prc \in OnlinePublishCodes : OnConnect(rc, prc)
    \/ \E prc \in PublishCodes : Publish(prc)
    \/ \E rc \in ReasonCodes : OnDisconnect(rc)
    \/ Tick

SpecClean == InitLife /\ [][NextClean]_vars

-----------------------------------------------------------------------------
(* DataForwarder: the count of failed sends.  _send_property_data is called
   for one batch at a time while the session comes and goes.  The cooldown
   it sleeps is observed in ev.wait; the forwarder's clock advances by
   ForwarderTick alone, so a later send may find any time elapsed. *)

MaxFailures == 26      \* cap of mqtt_failure_count

failure_delay_base == 1

RECURSIVE Pow2(_)
Pow2(n) == IF n = 0 THEN 1 ELSE 2 * Pow2(n - 1)

\* _handle_mqtt_failure: the seconds it sleeps at the failure count `count`
FailureDelay(count) ==
    IF count >= 5
    THEN Min(failure_delay_base * Pow2(Min(count \div 5, 5)), 30)
    ELSE 0

\* _send_property_data for a batch that is not empty: a failure is counted
\* if the session is down; otherwise the message goes to _rate_limited_send
\* and the count is reset.  prc is the result of client.publish
SendPropertyData(prc) ==
    IF ~is_connected
    THEN /\ mqtt_failure_count < MaxFailures
         /\ mqtt_failure_count' = mqtt_failure_count + 1
         /\ ev' = [Observe("send_property") EXCEPT
                     !.conn = FALSE, !.cnt = mqtt_failure_count,
                     !.wait = FailureDelay(mqtt_failure_count + 1)]
         /\ UNCHANGED <<connVars, rateVars, wire, store, threads, regVars,
                        is_running, forward_task, last_forward_time,
                        lifespan>>
    ELSE \E fw \in {RateLimited(Forwarder, is_connected)} :
         /\ next_id <= MaxMsgs
         /\ fw.clock <= MaxClock
         /\ SetForwarder(fw)
         /\ mqtt_failure_count' = ResetMqttFailureCount(mqtt_failure_count)
         /\ ev' = [Observe("send_property") EXCEPT
                     !.conn = TRUE, !.cnt = mqtt_failure_count,
                     !.rc = next_id, !.prc = prc,
                     !.handed = Len(fw.wire) - Len(wire),
                     !.queued = InQueue(fw.queue, next_id),
                     !.ret = (prc = MQTT_ERR_SUCCESS
                                /\ ~InQueue(fw.queue, next_id))]
         /\ UNCHANGED <<connVars, store, threads, regVars, is_running,
                        forward_task, last_forward_time, lifespan>>

NextFailure ==
    \/ \E rc \in ConnackCodes, prc \in OnlinePublishCodes : OnConnect(rc, prc)
    \/ \E rc \in ReasonCodes : OnDisconnect(rc)
    \/ \E prc \in PublishCodes : SendPropertyData(prc)
    \/ ForwarderTick

SpecFailure == InitRate /\ [][NextFailure]_vars

-----------------------------------------------------------------------------
(* _rate_limited_send on two threads.  The forward loop calls it on the event
   loop's thread; a data call runs _process_call_data_request with
   asyncio.run on the client's network thread, whose _forward_data calls it
   too.  message_queue and last_send_time are shared and no lock is taken:
   the interpreter may switch threads between the enqueue (or direct send) of
   a call and its _process_message_queue. *)

SendThreads == {"pipeline", "callback"}

\* a thread enters _rate_limited_send and runs it up to `if self.message_queue`
SendEnter(thread) ==
    /\ threads[thread] = "idle"
    /\ thread = "callback" => link \in {"up", "closing"}
    /\ next_id <= MaxMsgs
    /\ threads' = [threads EXCEPT ![thread] = "rate_limited"]
    /\ SetForwarder(EnterSend(Forwarder, is_connected))
    /\ ev' = [Observe("send_enter") EXCEPT
                !.rc = next_id, !.conn = is_connected,
                !.early = ~SendsDirectly(clock, last_send_time),
                !.active = Len(message_queue)]
    /\ UNCHANGED <<connVars, store, restVars>>

\* the thread runs the rest of _rate_limited_send and returns from it
SendReturn(thread) ==
    /\ threads[thread] = "rate_limited"
    /\ \E fw \in {DrainQueue(Forwarder, is_connected)} :
          /\ fw.clock <= MaxClock
          /\ SetForwarder(fw)
          /\ ev' = [Observe("send_return") EXCEPT
                      !.conn = is_connected,
                      !.handed = Len(fw.wire) - Len(wire),
                      !.active = Len(message_queue),
                      !.queued = fw.queue # <<>>]
    /\ threads' = [threads EXCEPT ![thread] = "idle"]
    /\ UNCHANGED <<connVars, store, restVars>>

NextQueue ==
    \/ CallbackIdle /\ \E rc \in ConnackCodes, prc \in OnlinePublishCodes :
                            OnConnect(rc, prc)
    \/ CallbackIdle /\ \E rc \in ReasonCodes : OnDisconnect(rc)
    \/ \E thread \in SendThreads : SendEnter(thread)
    \/ \E thread \in SendThreads : SendReturn(thread)
    \/ ForwarderTick

SpecQueue == InitRate /\ [][NextQueue]_vars

-----------------------------------------------------------------------------
(* The values of a hash, as the forward cycle and a point read report them.
   The store holds the hash comsrv:1:T with one field v; its text is any
   text up to MaxText characters long over NormChars. *)

MaxText == 4           \* characters of a field's text

NormChars == {"0", "1", "2", "5", ".", "-", "e", "n", "a", "x"}

Texts(n) == UNION {[1 .. k -> NormChars] : k \in 0 .. n}

\* the text of the field v
FieldText(st) == st[ChannelKey(<<"1">>)].hash[1].text

\* _send_property_data's `converted_value = self._convert_hash_values(value)`
ConvertHashValuesCall ==
    /\ ev' = [Observe("convert") EXCEPT
                !.data = ConvertHashValues(store[ChannelKey(<<"1">>)].hash)]
    /\ UNCHANGED <<connVars, rateVars, wire, store, threads, restVars>>

\* a point read of the field v of the hash
GetRedisDataHash ==
    /\ ev' = [Observe("point_read") EXCEPT
                !.data = <<[field |-> "v",
                            value |-> HashFieldValue(FieldText(store))]>>]
    /\ UNCHANGED <<connVars, rateVars, wire, store, threads, restVars>>

InitNorm ==
    /\ is_connected = TRUE
    /\ reconnect_enabled = TRUE
    /\ current_reconnect_attempts = 0
    /\ last_disconnect_time = 0
    /\ disconnect_count = 0
    /\ ssl_enabled = FALSE
    /\ ssl_monitor = FALSE
    /\ workers = NoWorkers
    /\ link = "up"
    /\ now = Epoch
    /\ api = "idle"
    /\ message_queue = <<>>
    /\ last_send_time = 0
    /\ clock = forward_interval
    /\ next_id = 1
    /\ wire = <<>>
    /\ store \in {ForwardStore(0, HashOf(text), NoEntry) : text \in Texts(MaxText)}
    /\ threads = NoThreads
    /\ message_handlers = <<>>
    /\ connection_callbacks = <<>>
    /\ disconnection_callbacks = <<>>
    /\ is_running = TRUE
    /\ forward_task = "running"
    /\ last_forward_time = 0
    /\ mqtt_failure_count = 0
    /\ lifespan = "serving"
    /\ ev = NoEv

NextNorm == ConvertHashValuesCall \/ GetRedisDataHash

SpecNorm == InitNorm /\ [][NextNorm]_vars

-----------------------------------------------------------------------------
(* MQTTClient._check_connection_stability on its own: the counter of
   consecutive disconnects takes every value up to MaxCount, and the check
   is made at each distance from the last disconnect that separates two
   windows. *)

MaxCount == 22         \* the largest disconnect_count the check starts from

\* current_time - self.last_disconnect_time, in seconds
Elapsed == {0, 59, 60, 119, 120, 299, 300}

\* _check_connection_stability(): the window it chooses, its result, and the
\* counter it leaves
CheckConnectionStabilityCall ==
    /\ disconnect_count <= MaxCount
    /\ disconnect_count' =
           StabilityCount(now, last_disconnect_time, disconnect_count)
    /\ ev' = [Observe("check_stability") EXCEPT
                !.cnt = disconnect_count,
                !.wait = WaitTime(disconnect_count),
                !.ret = CheckConnectionStability(now, last_disconnect_time,
                                                 disconnect_count)]
    /\ UNCHANGED <<is_connected, reconnect_enabled, current_reconnect_attempts,
                   last_disconnect_time, ssl_enabled, ssl_monitor, workers,
                   link, now, api, rateVars, wire, store, threads, restVars>>

InitTier ==
    /\ is_connected = FALSE
    /\ reconnect_enabled = TRUE
    /\ current_reconnect_attempts = 0
    /\ now = Epoch
    /\ last_disconnect_time \in {now - e : e \in Elapsed}
    /\ disconnect_count \in 0 .. MaxCount
    /\ ssl_enabled = FALSE
    /\ ssl_monitor = FALSE
    /\ workers = NoWorkers
    /\ link = "pending"
    /\ api = "idle"
    /\ message_queue = <<>>
    /\ last_send_time = 0
    /\ clock = send_interval
    /\ next_id = 1
    /\ wire = <<>>
    /\ store = EmptyStore
    /\ threads = NoThreads
    /\ message_handlers = <<>>
    /\ connection_callbacks = <<>>
    /\ disconnection_callbacks = <<>>
    /\ is_running = FALSE
    /\ forward_task = "none"
    /\ last_forward_time = 0
    /\ mqtt_failure_count = 0
    /\ lifespan = "serving"
    /\ ev = NoEv

NextTier == CheckConnectionStabilityCall

SpecTier == InitTier /\ [][NextTier]_vars

-----------------------------------------------------------------------------
(* The reconnect worker's delay.  A delay is a whole number of units of
   1 / DelayScale seconds, which writes reconnect_delay * 1.2^k exactly for
   every k up to MaxGrow. *)

MaxGrow == 6           \* the largest exponent of 1.2: attempts up to 3 + MaxGrow

RECURSIVE Pow5(_)
Pow5(n) == IF n = 0 THEN 1 ELSE 5 * Pow5(n - 1)

DelayScale == Pow5(MaxGrow)
Seconds(s) == s * DelayScale

\* the configurations: reconnect.delay (5 unless configured) and
\* reconnect.max_attempts (10 unless configured)
ReconnectDelays == {1, 5, 60, 100, 150, 400}
MaxReconnectAttempts == {2, 5, 10}

RECURSIVE Grown(_, _, _)
\* min(delay * 1.2^k, cap) for k >= 1
Grown(delay, k, cap) ==
    IF delay >= cap THEN cap
    ELSE IF k = 0 THEN delay
    ELSE Grown((delay * 6) \div 5, k - 1, cap)

\* the delay of the attempt numbered attempts
ReconnectDelay(attempts, reconnect_delay, max_attempts) ==
    IF attempts <= max_attempts
    THEN IF attempts <= 3 THEN Seconds(reconnect_delay)
         ELSE Grown(Seconds(reconnect_delay), attempts - 3, Seconds(120))
    ELSE Seconds(300)

\* reconnect_worker, from the head of an iteration to its sleep: it counts
\* the attempt and chooses the delay
WorkerDelay(reconnect_delay, max_attempts) ==
    /\ current_reconnect_attempts < 3 + MaxGrow
    /\ current_reconnect_attempts' = current_reconnect_attempts + 1
    /\ ev' = [Observe("delay") EXCEPT
                !.att = current_reconnect_attempts + 1,
                !.rc = reconnect_delay,
                !.cnt = max_attempts,
                !.wait = ReconnectDelay(current_reconnect_attempts + 1,
                                        reconnect_delay, max_attempts)]
    /\ UNCHANGED <<is_connected, reconnect_enabled, last_disconnect_time,
                   disconnect_count, ssl_enabled, ssl_monitor, workers, link,
                   now, api, rateVars, wire, store, threads, restVars>>

InitDelay ==
    /\ is_connected = FALSE
    /\ reconnect_enabled = TRUE
    /\ current_reconnect_attempts = 0
    /\ now = Epoch
    /\ last_disconnect_time = Epoch
    /\ disconnect_count = 0
    /\ ssl_enabled = FALSE
    /\ ssl_monitor = FALSE
    /\ workers = StartReconnect(NoWorkers)
    /\ link = "pending"
    /\ api = "idle"
    /\ message_queue = <<>>
    /\ last_send_time = 0
    /\ clock = send_interval
    /\ next_id = 1
    /\ wire = <<>>
    /\ store = EmptyStore
    /\ threads = NoThreads
    /\ message_handlers = <<>>
    /\ connection_callbacks = <<>>
    /\ disconnection_callbacks = <<>>
    /\ is_running = FALSE
    /\ forward_task = "none"
    /\ last_forward_time = 0
    /\ mqtt_failure_count = 0
    /\ lifespan = "serving"
    /\ ev = NoEv

NextDelay ==
    \E reconnect_delay \in ReconnectDelays, max_attempts \in MaxReconnectAttempts :
        WorkerDelay(reconnect_delay, max_attempts)

SpecDelay == InitDelay /\ [][NextDelay]_vars

-----------------------------------------------------------------------------
(* Device addressing.  The store holds one channel of a service; the forward
   pipeline names its device in a property report, and a point read or a
   point write is requested for the device a report named. *)

MaxChannel == 3        \* characters of a channel name

AddrChars == {"D", "1", " ", "_"}

Channels == UNION {[1 .. k -> AddrChars] : k \in 1 .. MaxChannel}

AddrKey(channel) == <<"modsrv", channel, "T">>

AddrKeys == {AddrKey(channel) : channel \in Channels}

\* the store with the hash of one channel
AddrStore(channel) ==
    [k \in AddrKeys |->
        IF k = AddrKey(channel)
        THEN HashEntry([NoFields EXCEPT !["v"] = "0"])
        ELSE Absent]

\* the keys the store holds
Present(st) == {k \in DOMAIN st : st[k].type # "none"}

\* the source, device and data_type of _send_property_data's point_data for
\* the key
PointName(key) ==
    [source |-> ParseKeyFormat(key).service,
     device |-> DeviceOf(ParseKeyFormat(key).channel),
     data_type |-> ParseKeyFormat(key).data_type]

\* _send_property_data for the group of one key the store holds: the
\* property report names the device
SendPropertyDataOf(key) ==
    /\ key \in Present(store)
    /\ ev' = [Observe("property") EXCEPT
                !.req = [NoRequest EXCEPT
                           !.shape = "report",
                           !.source = PointName(key).source,
                           !.device = PointName(key).device,
                           !.data_type = PointName(key).data_type]]
    /\ UNCHANGED <<connVars, rateVars, wire, store, threads, restVars>>

\* PointReader._get_redis_data for the field v of the device the report named
GetRedisDataOfReport ==
    /\ ev.op = "property"
    /\ ev' = [Observe("point_read") EXCEPT
                !.req = [ev.req EXCEPT !.shape = "valid", !.key = "v"],
                !.msg = GetRedisData(store, TRUE, ev.req.source,
                                     ev.req.device, ev.req.data_type, "v")]
    /\ UNCHANGED <<connVars, rateVars, wire, store, threads, restVars>>

\* PointWriter._write_redis_data of the field v of the device the report named
WriteRedisDataOfReport(value) ==
    /\ ev.op = "property"
    /\ LET w == WriteRedisData(store, TRUE, ev.req.source, ev.req.device,
                               ev.req.data_type, "v", value)
       IN  /\ store' = w.store
           /\ ev' = [Observe("point_write") EXCEPT
                       !.req = [ev.req EXCEPT !.shape = "valid", !.key = "v",
                                              !.value = value],
                       !.ret = w.ok]
    /\ UNCHANGED <<connVars, rateVars, wire, threads, restVars>>

InitAddr ==
    /\ is_connected = TRUE
    /\ reconnect_enabled = TRUE
    /\ current_reconnect_attempts = 0
    /\ last_disconnect_time = 0
    /\ disconnect_count = 0
    /\ ssl_enabled = FALSE
    /\ ssl_monitor = FALSE
    /\ workers = NoWorkers
    /\ link = "up"
    /\ now = Epoch
    /\ api = "idle"
    /\ message_queue = <<>>
    /\ last_send_time = 0
    /\ clock = send_interval
    /\ next_id = 1
    /\ wire = <<>>
    /\ store \in {AddrStore(channel) : channel \in Channels}
    /\ threads = NoThreads
    /\ message_handlers = <<>>
    /\ connection_callbacks = <<>>
    /\ disconnection_callbacks = <<>>
    /\ is_running = TRUE
    /\ forward_task = "running"
    /\ last_forward_time = 0
    /\ mqtt_failure_count = 0
    /\ lifespan = "serving"
    /\ ev = NoEv

NextAddr ==
    \/ \E key \in AddrKeys : SendPropertyDataOf(key)
    \/ GetRedisDataOfReport
    \/ \E value \in {"x"} : WriteRedisDataOfReport(value)

SpecAddr == InitAddr /\ [][NextAddr]_vars

-----------------------------------------------------------------------------
(* Properties of the connection manager, checked under Spec *)

IsUnexpectedDisconnect == ev.op = "on_disconnect" /\ ev.rc # 0

\* C1: a disconnect with a serious reason code (1-5) schedules a reconnect
\* whenever reconnect is enabled, however recent the previous disconnect and
\* whatever the disconnect counter.
SeriousDisconnectSchedulesReconnect ==
    (ev.op = "on_disconnect" /\ ev.rc \in serious_errors /\ ev.en)
        => ev.sched

\* C2: at most one reconnect worker is active at any time.
AtMostOneReconnectWorker == ActiveWorkers(workers) <= 1

\* C8: an unexpected disconnect that arrives within the cooldown window of the
\* previous one is counted and schedules no reconnect: the disconnect handler
\* starts no worker.
CooldownHoldsReconnectBack ==
    (IsUnexpectedDisconnect /\ ~ev.outside)
        => /\ ~ev.sched
           /\ ActiveWorkers(workers) = ev.active
           /\ disconnect_count = ev.cnt + 1

\* C8 happens: the third of three serious disconnects in a row, each within
\* the window of the one before, with reconnect enabled, started no worker.
CooldownWitness ==
    /\ IsUnexpectedDisconnect
    /\ ev.rc \in serious_errors
    /\ ev.en
    /\ ~ev.outside
    /\ ev.cnt >= 2
    /\ ~ev.sched

\* C9: an unexpected disconnect that arrives more than the tier's cooldown
\* window after the previous one schedules a reconnect when reconnect is
\* enabled.
DisconnectOutsideWindowReconnects ==
    (IsUnexpectedDisconnect /\ ev.outside /\ ev.en) => ev.sched

\* C10: after a successful connect acknowledgment the disconnect counter and
\* the attempt counter are 0 and the state is Connected.
ConnectResetsRetryState ==
    (ev.op = "on_connect" /\ ev.rc = 0)
        => /\ is_connected
           /\ disconnect_count = 0
           /\ current_reconnect_attempts = 0

\* C10 happens: an acknowledgment arrived with both counters above zero.
ConnectResetWitness ==
    /\ ev.op = "on_connect"
    /\ ev.rc = 0
    /\ ev.cnt >= 2
    /\ ev.att >= 1
    /\ disconnect_count = 0

\* C34: in an iteration of the reconnect worker connect is called only after
\* the reachability probe of that iteration succeeded and only if the state
\* is not Connected then; a failed probe skips the connect of the iteration,
\* whose attempt stays counted.
ProbeBeforeConnect ==
    /\ ev.op = "worker_loop" /\ ~ev.conn
          => current_reconnect_attempts = ev.att + 1
    /\ ev.op = "worker_wake" =>
          /\ ev.sched => ev.probe = "ok" /\ ~ev.conn
          /\ ev.ret => ev.sched
          /\ ev.probe = "failed"
                => ~ev.sched /\ current_reconnect_attempts = ev.att

ProbeFailedWitness ==
    /\ ev.op = "worker_wake"
    /\ ev.probe = "failed"
    /\ ~ev.conn
    /\ ~ev.sched
    /\ current_reconnect_attempts > 0

\* C36: once close_connection has returned true the state is not Connected
\* and automatic reconnection is disabled: no reconnect worker, one sleeping
\* in its delay included, calls connect until the operator asks for a
\* reconnect or a reload.
CloseStopsReconnect ==
    /\ ev.op = "close" /\ ev.ret => ~is_connected /\ ~reconnect_enabled
    /\ ev.op = "worker_wake" /\ ev.closed => ~ev.sched

-----------------------------------------------------------------------------
(* Properties of the publish paths, checked under SpecRate *)

IsWorkerStep == ev.op \in {"worker_loop", "worker_wake", "worker_connect"}

\* the step ended a reconnect worker
WorkerEnded == IsWorkerStep /\ ActiveWorkers(workers) < ev.active

\* the attempt counter stands at its cap, where the model stops the worker
\* at the loop head, and no connect is waiting for the broker's answer
WorkerBlockedAtCap ==
    /\ current_reconnect_attempts >= MaxAttempts
    /\ workers["loop"] > 0
    /\ link # "pending"

WorkerStopsOnlyConnected ==
    /\ WorkerEnded => ev.conn
    /\ ev.op \in {"worker_loop", "worker_connect"} /\ ev.conn => WorkerEnded

\* C11: a reconnect worker ends only at a step that finds the connection
\* established, after however many failed attempts (more than
\* max_reconnect_attempts included), and it ends at the loop head or at the
\* return of connect() as soon as the connection is there; with the worker
\* scheduled fairly and the broker reachable, a running worker leads to the
\* Connected state.
WorkerRunsUntilConnected ==
    /\ []WorkerStopsOnlyConnected
    /\ (ActiveWorkers(workers) > 0) ~> (is_connected \/ WorkerBlockedAtCap)

\* a failed attempt beyond max_reconnect_attempts left the worker running
WorkerBeyondMaxWitness ==
    /\ ev.op = "worker_loop"
    /\ ~ev.conn
    /\ ev.att >= max_reconnect_attempts
    /\ ActiveWorkers(workers) = ev.active
    /\ current_reconnect_attempts > max_reconnect_attempts

\* C12: at most one call of client.publish is in progress at a time, under
\* every interleaving of the event loop's thread and the network thread.
OneTransmissionAtATime == TransmissionsInProgress(threads) <= 1

\* C13: every increment of current_reconnect_attempts raises the counter above
\* the value it holds when the increment is stored: no increment is lost to
\* another thread's increment.
NoLostIncrement ==
    ev.op = "worker_store" => current_reconnect_attempts > ev.att

\* a publish path handed a message to client.publish
IsHandedPublish ==
    ev.op \in {"publish", "rate_limited_send"} /\ ev.conn /\ ev.handed > 0

\* C14: on every publish path, the forward pipeline's rate-limited send
\* included, a client.publish result of 4, 7 or 15 forces the disconnect (the
\* connection flag is cleared and, with reconnection enabled, a reconnect
\* worker runs), and any other result leaves the connection as it was.
ConnectionErrorForcesReconnect ==
    IsHandedPublish =>
        IF IsConnectionError(ev.prc)
        THEN ~is_connected /\ (reconnect_enabled => ActiveWorkers(workers) > 0)
        ELSE is_connected

IsSend == ev.op = "rate_limited_send"

\* C3: a message is handed to the client only while is_connected holds: a
\* publish or a forwarder send made while it is false hands nothing over and
\* returns false.
PublishOnlyWhenConnected ==
    (ev.op \in {"publish", "rate_limited_send"})
        => /\ ev.handed > 0 => ev.conn
           /\ ~ev.conn => (ev.handed = 0 /\ ~ev.ret)

\* C3 happens: a forwarder message was dropped unsent and a publish was then
\* refused, both while disconnected.
PublishRefusedWitness ==
    /\ ev.op = "publish"
    /\ ~ev.conn
    /\ ev.handed = 0
    /\ next_id > 1
    /\ wire = <<>>

RateNeverExceeded ==
    \A i, j \in DOMAIN wire :
        i < j => wire[j].at - wire[i].at >= (j - i) * send_interval

\* C6: a send called less than the send interval after the last one only
\* queues its message, and a send called later transmits it at once.
EarlySendOnlyQueues ==
    IsSend => /\ ev.early => (ev.handed = 0 /\ ev.queued)
              /\ (~ev.early /\ ev.conn) => ev.handed = 1

-----------------------------------------------------------------------------
(* Properties of the request handlers, checked under SpecReq *)

IsRequest == ev.op \in {"read_request", "write_request", "call_request"}

\* C7: every point-read, point-write or data-call request delivered to its
\* handler is answered by exactly one reply passed to publish, whatever the
\* payload and whatever the store holds.
ExactlyOneReply == IsRequest => ev.replies = 1

\* C15: a reply published for a request that carries a msgId carries the same
\* msgId, in the point-read, the point-write and the data-call protocol.
ReplyEchoesMsgId ==
    IsRequest /\ ev.req.msgId # Nil /\ ev.replies > 0 => ev.msg = ev.req.msgId

\* an incomplete request with a msgId was answered under that msgId
EchoWitness ==
    /\ IsRequest
    /\ ev.shape = "missing_field"
    /\ ev.req.msgId \in MsgIds
    /\ ev.replies = 1
    /\ ev.msg = ev.req.msgId

\* C16: in each of the three protocols a payload that is not JSON is answered
\* with json_parse_error and one whose handling raises an unexpected exception
\* (a JSON number) with general_error; a point-read or point-write request
\* without its required fields is answered with validation_failed.
ErrorClassByCause ==
    IsRequest =>
        /\ ev.shape = "not_json" => ev.class = "json_parse_error"
        /\ ev.shape = "json_number" => ev.class = "general_error"
        /\ ev.shape = "missing_field" /\ ev.op # "call_request"
               => ev.class = "validation_failed"

\* the store key source:device:data_type, the device's underscores as spaces
SpacedKey(req) ==
    <<req.source,
      [i \in 1 .. Len(req.device) |->
          IF req.device[i] = "_" THEN " " ELSE req.device[i]],
      req.data_type>>

\* a complete point-write request found the store reachable and its key absent
IsCreatingWrite ==
    /\ ev.op = "write_request"
    /\ ev.shape = "valid"
    /\ ev.redis
    /\ ev.before = "none"

\* C17: a complete point-write request whose store key does not exist (the
\* store being reachable) leaves a hash at source:device:data_type, the
\* device's underscores turned into spaces, that holds key = value and nothing
\* else, and the reply passed to publish is success with the request's msgId.
WriteCreatesHash ==
    IsCreatingWrite =>
        /\ store[SpacedKey(ev.req)].type = "hash"
        /\ \A f \in FieldNames :
              store[SpacedKey(ev.req)].hash[f]
                  = IF f = ev.req.key THEN ev.req.value ELSE Nil
        /\ ev.replies = 1
        /\ ev.class = "success"
        /\ ev.msg = ev.req.msgId

\* the device D_1 was written at the key of "D 1"
WriteCreatesWitness ==
    /\ IsCreatingWrite
    /\ ev.req.device = <<"D", "_", "1">>
    /\ store[<<"modsrv", <<"D", " ", "1">>, "T">>].hash[ev.req.key] = "x"
    /\ ev.msg = "m1"

\* the keys of the store that exist
ExistingKeys == Cardinality({k \in StoreKeys : store[k].type # "none"})

\* the payload of the data call was a JSON object
IsDataCall == ev.op = "call_request" /\ ev.shape \in {"missing_field", "valid"}

\* C18: a data call is acknowledged first and then runs one forward cycle:
\* the handler passes one success reply to publish and afterwards calls
\* _forward_data once, which submits one message for each existing key, and
\* at most the system monitor message besides, if the gateway is still
\* connected and the store reachable, and none if it is not connected.
AckThenOneCycle ==
    IsDataCall =>
        /\ ev.steps = <<"ack", "cycle">>
        /\ ev.replies = 1
        /\ ev.class = "success"
        /\ is_connected /\ ev.redis
               => ev.cnt \in {ExistingKeys, ExistingKeys + 1}
        /\ ~is_connected => ev.cnt = 0

\* the acknowledgment went out and the cycle after it submitted the one key
\* the store holds
AckThenCycleWitness ==
    /\ IsDataCall
    /\ ev.req.msgId \in MsgIds
    /\ ev.ret
    /\ ev.redis
    /\ ExistingKeys = 1
    /\ ev.cnt >= 1
    /\ ev.steps = <<"ack", "cycle">>

-----------------------------------------------------------------------------
(* Properties of _topic_match, checked under SpecTopic *)

IsTopicMatch == ev.op = "topic_match"

\* every segment of the topic is accounted for by the pattern's segment at
\* its place: a '+' or the same text
SegmentForSegment(pattern, topic) ==
    /\ Len(pattern) = Len(topic)
    /\ \A i \in 1 .. Len(pattern) : pattern[i] \in {"+", topic[i]}

\* the first n segments of the pattern agree with the topic's
PrefixAgrees(pattern, topic, n) ==
    /\ Len(topic) >= n
    /\ \A i \in 1 .. n : pattern[i] \in {"+", topic[i]}

\* the pattern's only '#' is its last segment
EndsInHash(pattern) ==
    /\ pattern[Len(pattern)] = "#"
    /\ \A i \in 1 .. Len(pattern) - 1 : pattern[i] # "#"

\* C19: a pattern without '#' matches a topic exactly if they have the same
\* number of segments and each segment of the pattern is '+' or equals the
\* topic's segment at its place: a '+' stands for exactly one segment.
PlusMatchesOneSegment ==
    IsTopicMatch /\ (\A i \in 1 .. Len(ev.pattern) : ev.pattern[i] # "#")
        => (ev.ret <=> SegmentForSegment(ev.pattern, ev.topic))

\* C20: a pattern whose last segment is its only '#' matches every topic
\* that agrees with the segments before the '#' and has at least one segment
\* more, however many, and matches no topic that differs from it in one of
\* the segments before the '#'.
HashMatchesRemainder ==
    IsTopicMatch /\ EndsInHash(ev.pattern) =>
        /\ PrefixAgrees(ev.pattern, ev.topic, Len(ev.pattern) - 1)
              /\ Len(ev.topic) >= Len(ev.pattern)
              => ev.ret
        /\ (\E i \in 1 .. Len(ev.pattern) - 1 :
                /\ i <= Len(ev.topic)
                /\ ev.pattern[i] \notin {"+", ev.topic[i]})
              => ~ev.ret

\* a/# matched a/b/a, two segments after the prefix
HashWitness ==
    /\ IsTopicMatch
    /\ ev.pattern = <<"a", "#">>
    /\ ev.topic = <<"a", "b", "a">>
    /\ ev.ret

-----------------------------------------------------------------------------
(* Properties of the router, checked under SpecRouter *)

IsRouted == ev.op = "on_message"

\* the matching of section "Topic Router": the same text, or segment for
\* segment with '+' for exactly one segment, or a final '#' for its segment
\* and all that remain
PatternMatches(pattern, topic) ==
    \/ pattern = topic
    \/ /\ \A i \in 1 .. Len(pattern) : pattern[i] # "#"
       /\ SegmentForSegment(pattern, topic)
    \/ /\ EndsInHash(pattern)
       /\ Len(topic) >= Len(pattern)
       /\ PrefixAgrees(pattern, topic, Len(pattern) - 1)

\* the handler of the first registered pattern that matches, if there is one
FirstMatching(handlers, topic) ==
    LET matching ==
            SelectSeq(handlers, LAMBDA h : PatternMatches(h.pattern, topic))
    IN  IF matching = <<>> THEN <<>> ELSE <<Head(matching).handler>>

\* the '#' of every registered pattern is its last segment
PatternsLegal(handlers) ==
    \A i \in 1 .. Len(handlers) :
        \/ \A j \in 1 .. Len(handlers[i].pattern) :
              handlers[i].pattern[j] # "#"
        \/ EndsInHash(handlers[i].pattern)

\* C21: for each inbound message the router calls at most one handler, the
\* handler of the first registered pattern that matches the topic; if no
\* pattern matches the message is dropped without an error, and an exception
\* of the handler does not leave the router.
FirstMatchWins ==
    IsRouted /\ PatternsLegal(message_handlers) =>
        /\ Len(ev.calls) <= 1
        /\ ev.ret => ev.calls = FirstMatching(message_handlers, ev.topic)
        /\ ev.ret /\ FirstMatching(message_handlers, ev.topic) = <<>>
              => ev.level # "error"
        /\ ~ev.escaped

-----------------------------------------------------------------------------
(* Properties of the forward cycle, checked under SpecForward *)

IsForwardCycle == ev.op = "forward_data"

\* the cycle ran with the session up and nothing failed in it
IsCleanCycle ==
    IsForwardCycle /\ ev.conn /\ ev.redis /\ ev.fault = NoFault

\* the groups of the records fetched
GroupsOf(data) == {GroupKey(data[i].key) : i \in 1 .. Len(data)}

\* the batches formed for a group, as their records, in the order formed
BatchesOf(batches, group) ==
    LET own == SelectSeq(batches, LAMBDA b : b.group = group)
    IN  [k \in 1 .. Len(own) |-> own[k].items]

\* the property lists of the messages submitted for a group, in order
MessagesOf(msgs, group) ==
    LET own == SelectSeq(msgs, LAMBDA m : m.kind = "property"
                                           /\ m.group = group)
    IN  [k \in 1 .. Len(own) |-> own[k].property]

\* ceil(n / b)
CeilDiv(n, b) == (n + b - 1) \div b

\* C22: a group of n records with batch size b is forwarded as exactly
\* ceil(n/b) messages, all of size b except the last, which has the
\* remainder, and the batches joined in the order they are emitted give the
\* group's records in their original order.
BatchSplitting ==
    IsCleanCycle =>
        \A g \in GroupsOf(ev.data) :
            LET items == GroupItems(ev.data, g)
                bs == BatchesOf(ev.batches, g)
                ms == MessagesOf(ev.msgs, g)
                n == Len(items)
                b == ev.batch_size
            IN  /\ Len(bs) = CeilDiv(n, b)
                /\ \A k \in 1 .. Len(bs) - 1 : Len(bs[k]) = b
                /\ Len(bs[Len(bs)]) = n - (Len(bs) - 1) * b
                /\ Concat(bs) = items
                /\ Len(ms) = Len(bs)
                /\ \A k \in 1 .. Len(ms) : Len(ms[k]) = Len(bs[k])
                /\ ev.handed = Len(ev.msgs)

\* C22 happens: a group of three records went out with batch size 2 as a
\* message of two records and a message of one.
BatchSplittingWitness ==
    /\ IsCleanCycle
    /\ ev.batch_size = 2
    /\ \E g \in GroupsOf(ev.data) :
          /\ Len(GroupItems(ev.data, g)) = 3
          /\ Len(MessagesOf(ev.msgs, g)) = 2
          /\ Len(MessagesOf(ev.msgs, g)[1]) = 2
          /\ Len(MessagesOf(ev.msgs, g)[2]) = 1
    /\ ev.handed = Len(ev.msgs)

\* the store of the scenario: comsrv:1:T = {v: "23.5"}, comsrv:2:T = {v: "24"}
ScenarioStore ==
    ForwardStore(0, HashOf(<<"2", "3", ".", "5">>), HashOf(<<"2", "4">>))

\* the entry {source comsrv, device, data_type T, value {v: number}}
ScenarioEntry(device, number) ==
    [source |-> "comsrv", device |-> device, data_type |-> "T",
     value |-> [type |-> "hash",
                hash |-> <<[field |-> "v", value |-> number]>>,
                json |-> [kind |-> "str", mant |-> 0, frac |-> 0,
                          text |-> <<>>],
                members |-> <<>>]]

\* the float 23.5 and the integer 24
Number235 == [kind |-> "float", mant |-> 235, frac |-> 1, text |-> <<>>]
Number24 == [kind |-> "int", mant |-> 24, frac |-> 0, text |-> <<>>]

InList(list, x) == \E i \in 1 .. Len(list) : list[i] = x

\* the scenario's cycle: session up, store up, nothing excluded, nothing
\* failing, no system metrics due, batch size above the number of records
IsScenarioCycle ==
    /\ IsCleanCycle
    /\ store = ScenarioStore
    /\ ev.exclude = <<>>
    /\ ~ev.sched
    /\ ev.batch_size >= 2

\* C23: with the broker connected and the store holding the maps
\* comsrv:1:T = {v: "23.5"} and comsrv:2:T = {v: "24"}, one forward cycle
\* whose batch size is above the number of records submits a single message,
\* and its property list holds both {comsrv, 1, T, {v: 23.5}} and
\* {comsrv, 2, T, {v: 24}}.
ScenarioSingleMessage ==
    IsScenarioCycle =>
        /\ Len(ev.msgs) = 1
        /\ InList(ev.msgs[1].property, ScenarioEntry(<<"1">>, Number235))
        /\ InList(ev.msgs[1].property, ScenarioEntry(<<"2">>, Number24))

\* C24: when the connection manager reports disconnected at the start of a
\* forward cycle the cycle is skipped entirely: no key of the store is
\* enumerated or read, no message is enqueued or transmitted, and no system
\* metrics message is produced.
DisconnectedCycleSkipped ==
    IsForwardCycle /\ ~ev.conn =>
        /\ ev.reads = 0
        /\ ev.data = <<>>
        /\ ev.batches = <<>>
        /\ ev.msgs = <<>>
        /\ ev.handed = 0
        /\ ~ev.queued

\* C24 happens: a cycle was skipped although the store was up and had keys
\* and the system metrics were due.
SkippedCycleWitness ==
    /\ IsForwardCycle /\ ~ev.conn
    /\ ev.redis /\ ev.sched
    /\ \E k \in ForwardKeys : HasContent(store[k])
    /\ wire = <<>> /\ message_queue = <<>>

\* the keys a cycle has to fetch whatever fails: those with content that a
\* pattern other than the failing one matches, that are not excluded and
\* are not the failing key
DueKeys(st, patterns, exclude, fault) ==
    {k \in ForwardKeys :
        /\ HasContent(st[k])
        /\ k # fault.key
        /\ \E i \in 1 .. Len(patterns) :
              patterns[i] # fault.pattern /\ GlobMatches(patterns[i], k)
        /\ \A i \in 1 .. Len(exclude) : ~GlobMatches(exclude[i], k)}

\* the batches a cycle has to send whatever fails: all but the failing one
DueBatches(batches, fault) ==
    SelectSeq([j \in 1 .. Len(batches) |->
                  [n |-> j, group |-> batches[j].group,
                   items |-> batches[j].items]],
              LAMBDA b : b.n # fault.batch)

\* C25: a failure while fetching one key or one key pattern, or while
\* building or sending one group, does not abort the forward cycle: every
\* other key is still fetched and every other group still forwarded in that
\* cycle (and the system metrics with them), and the forward loop keeps
\* running afterwards.
FailureDoesNotAbortCycle ==
    IsForwardCycle /\ ev.conn /\ ev.redis =>
        /\ \A k \in DueKeys(store, ev.patterns, ev.exclude, ev.fault) :
              \E i \in 1 .. Len(ev.data) : ev.data[i].key = k
        /\ LET due == DueBatches(ev.batches, ev.fault)
               sent == SelectSeq(ev.msgs, LAMBDA m : m.kind = "property")
           IN  /\ Len(sent) = Len(due)
               /\ \A j \in 1 .. Len(due) :
                     /\ sent[j].group = due[j].group
                     /\ Len(sent[j].property) = Len(due[j].items)
        /\ ev.sched => ev.msgs[Len(ev.msgs)].kind = "monitor"
        /\ ev.handed = Len(ev.msgs)
        /\ is_running /\ forward_task = "running"
        /\ ENABLED (ForwardLoopSleep \/ ForwardDataRun)
              \/ clock >= MaxCycles * forward_interval

\* C25 happens: the read of one key failed, the other keys were fetched and
\* forwarded, and this is the cycle after one in which a read or a batch failed.
FailureWitness ==
    /\ IsForwardCycle /\ ev.conn /\ ev.redis
    /\ ev.fault.kind = "key"
    /\ HasContent(store[ev.fault.key])
    /\ Len(ev.data) >= 2
    /\ ev.handed >= 2
    /\ ev.before = "failed"


StatusRetainedQos1 ==
    ev.status # "none" => (ev.qos = 1 /\ ev.retain)

-----------------------------------------------------------------------------
(* Properties of the life cycle, checked under SpecLife *)

\* the broker acknowledged the connect
IsConnectAck == ev.op = "on_connect" /\ ev.rc = 0

\* C28: on a successful connect the online status message is published and
\* every registered connection callback is then invoked exactly once, in
\* registration order; a callback that raises stops none of the later ones
\* and leaves the state Connected.
CallbacksInvokedInOrder ==
    IsConnectAck =>
        /\ ev.status = "online"
        /\ ev.handed = 1
        /\ ev.calls = Ids(connection_callbacks)
        /\ is_connected
        /\ ~ev.escaped

\* a public method of the connection manager returned or reached its wait
IsPublicCall ==
    ev.op \in {"reload", "force_reconnect", "reload_return", "publish",
               "close"}

\* the call ended before connect's wait: client.connect raised, or the
\* configuration has no broker section
EndedEarly ==
    /\ ev.op \in {"reload", "force_reconnect"}
    /\ (ev.steps = <<>> \/ ev.steps[Len(ev.steps)] # "wait")

StepAt(steps, step) ==
    IF \E i \in 1 .. Len(steps) : steps[i] = step
    THEN CHOOSE i \in 1 .. Len(steps) : steps[i] = step
    ELSE 0

\* the step is there and comes before the other
StepBefore(steps, first, second) ==
    /\ StepAt(steps, first) > 0
    /\ StepAt(steps, first) < StepAt(steps, second)

\* C30: reload_config_and_reconnect tears an active session down before it
\* reloads the configuration, builds a new client from the reloaded
\* configuration with the last will installed, and only then calls connect;
\* it returns what that connect returned; the message handlers and connection
\* callbacks registered before are registered afterwards.
ReloadRebuildsThenConnects ==
    /\ ev.op = "reload" =>
          /\ ~is_connected
          /\ ev.conn => StepBefore(ev.steps, "disconnect", "reload_config")
          /\ StepAt(ev.steps, "reload_config") > 0
          /\ ev.en =>
                /\ StepBefore(ev.steps, "reload_config", "new_client")
                /\ StepBefore(ev.steps, "new_client", "will_set")
                /\ StepBefore(ev.steps, "will_set", "client_connect")
                /\ ev.status = "will"
                /\ reconnect_enabled = ev.cfg.reconnect
                /\ ssl_enabled = ev.cfg.ssl
          /\ message_handlers = ev.handlers
          /\ connection_callbacks = ev.callbacks
    /\ ev.op = "reload_return" => (ev.ret <=> ev.conn)

\* a reload with a session up, handlers and callbacks registered and a broker
\* configured reached connect's wait
ReloadWitness ==
    /\ ev.op = "reload"
    /\ ev.conn
    /\ ev.en
    /\ link = "pending"
    /\ message_handlers # <<>>
    /\ connection_callbacks # <<>>
-----------------------------------------------------------------------------
(* Properties of the values, checked under SpecNorm *)

\* the text writes a number
WritesNumber(text) == FloatAccepts(text) /\ ~IsNan(text)

\* the value is the number the text writes
IsNumberOf(value, text) ==
    /\ value.text = <<>>
    /\ \/ value.mant = 0 /\ Written(text).mant = 0
       \/ Stripped([mant |-> value.mant, frac |-> value.frac])
            = Stripped(Written(text))

\* C31: both the forward cycle and a point read of a hash field turn a text
\* that writes an integral number into that integer and one that writes a
\* number with a fractional part into that float, and they leave every
\* other text as it is.
NumericNormalization ==
    ev.op \in {"convert", "point_read"} =>
        LET text == FieldText(store)
            value == ev.data[1].value
        IN  /\ ConvertHashValues(store[ChannelKey(<<"1">>)].hash)[1].value
                 = HashFieldValue(text)
            /\ IF WritesNumber(text)
               THEN /\ IsNumberOf(value, text)
                    /\ value.kind = IF IsInteger(Written(text)) THEN "int"
                                    ELSE "float"
               ELSE value = TextValue(text)
-----------------------------------------------------------------------------
(* Properties of the stability check, checked under SpecTier *)

\* the window the tiers of the counter c are given: 60 s up to fair, 120 s
\* for poor, 300 s for very_poor
TierWindow(c) ==
    IF c <= 10 THEN 60 ELSE IF c <= 20 THEN 120 ELSE 300

\* C32: the cooldown window chosen on a disconnect depends on the counter of
\* consecutive disconnects alone: 60 s for c = 0, for 1 <= c <= 3 and for
\* 4 <= c <= 10, 120 s for 11 <= c <= 20, 300 s for c > 20.
CooldownWindowByTier ==
    ev.op = "check_stability" =>
        /\ ev.wait = TierWindow(ev.cnt)
        /\ ev.ret = (now - last_disconnect_time >= TierWindow(ev.cnt))
-----------------------------------------------------------------------------
(* Properties of the reconnect delay, checked under SpecDelay *)

RECURSIVE GrowthBy12(_, _)
\* base * 1.2^k, as long as it stays below twice the cap
GrowthBy12(delay, k) ==
    IF k = 0 \/ delay >= Seconds(240) THEN delay
    ELSE GrowthBy12((delay * 6) \div 5, k - 1)

\* C33: the delay before attempt n is the base delay for n <= 3,
\* min(base * 1.2^(n-3), 120) for later attempts up to the max-attempts
\* threshold and 300 s beyond it; it never exceeds 300 s and, below the
\* threshold, it does not decrease with n.
ReconnectDelaySchedule ==
    ev.op = "delay" =>
        /\ ev.att <= 3 => ev.wait = Seconds(ev.rc)
        /\ ev.att > 3 /\ ev.att <= ev.cnt
              => ev.wait = Min(GrowthBy12(Seconds(ev.rc), ev.att - 3),
                               Seconds(120))
        /\ ev.att > 3 /\ ev.att > ev.cnt => ev.wait = Seconds(300)
        /\ ev.wait <= Seconds(300)
        /\ ev.att > 1 /\ ev.att <= ev.cnt
              => ReconnectDelay(ev.att - 1, ev.rc, ev.cnt) <= ev.wait
-----------------------------------------------------------------------------
(* Properties of the failure count, checked under SpecFailure *)

\* C35: the forward pipeline counts its consecutive failed sends; at a count
\* n >= 5 it waits min(base * 2^min(n div 5, 5), 30) seconds, never more than
\* 30; the count returns to zero on a successful transmission and on nothing
\* else.
FailureCountAndCooldown ==
    ev.op = "send_property" =>
        /\ ~ev.conn =>
              /\ mqtt_failure_count = ev.cnt + 1
              /\ ev.wait <= 30
              /\ mqtt_failure_count >= 5 =>
                    ev.wait = Min(failure_delay_base
                                    * Pow2(Min(mqtt_failure_count \div 5, 5)),
                                  30)
        /\ ev.conn /\ ev.ret => mqtt_failure_count = 0
        /\ ev.conn /\ ~ev.ret /\ ev.cnt > 0 => mqtt_failure_count # 0
-----------------------------------------------------------------------------
(* Properties of the outbound queue, checked under SpecQueue *)

\* the transmissions of the message numbered m
Transmissions(m) == {i \in DOMAIN wire : wire[i].id = m}

\* C37: a message the rate-limited publisher has accepted is handed to the
\* broker client at most once; a message taken from the queue while
\* disconnected is dropped, not queued again; and the queue is empty
\* whenever _rate_limited_send returns.
QueueOwnsMessages ==
    /\ \A m \in 1 .. MaxMsgs :
          /\ Cardinality(Transmissions(m)) <= 1
          /\ Transmissions(m) # {} => ~InQueue(message_queue, m)
    /\ ev.op = "send_return" =>
          /\ ~ev.conn => ev.handed = 0 /\ Len(message_queue) <= ev.active
          /\ message_queue = <<>>

-----------------------------------------------------------------------------
(* Properties of the disconnect callback, checked under SpecClean *)

\* C38: a disconnect with reason code 0 leaves the state not Connected and
\* has invoked every registered disconnection callback, in order; it leaves
\* last_disconnect_time, disconnect_count and current_reconnect_attempts as
\* they were and starts no reconnect worker.
CleanDisconnectFrame ==
    [][\A rc \in {0} :
          OnDisconnect(rc) =>
              /\ ~is_connected'
              /\ ev'.calls = Ids(disconnection_callbacks)
              /\ UNCHANGED <<last_disconnect_time, disconnect_count,
                             current_reconnect_attempts, workers>>
              /\ ~ev'.sched]_vars

-----------------------------------------------------------------------------
(* Properties of the device addressing, checked under SpecAddr *)

\* the store key a point read or point write of the request addresses
Addressed(req) == RedisKey(req.source, req.device, req.data_type)

\* C39: the device name the pipeline reports for a store key addresses that
\* key again: a point read or a point write of the reported source, device
\* and data type goes to every key the store holds under that name.
DeviceRoundTrip ==
    ev.op \in {"point_read", "point_write"} =>
        \A key \in Present(store) :
            PointName(key) = [source |-> ev.req.source,
                              device |-> ev.req.device,
                              data_type |-> ev.req.data_type]
               => Addressed(ev.req) = key

=========================================================================
